---- MODULE Spec2Model ----
(***************************************************************************)
(* A model of the experimentor framework (jmschr/experimentor):            *)
(*   - the per-class property registry filled by __set_name__              *)
(*     (models/feature.py, models/model_properties.py),                    *)
(*   - the Feature / ModelProp descriptors (read, write, mirroring into    *)
(*     the configuration store),                                           *)
(*   - the Basler camera model (models/devices/cameras/basler/basler.py),  *)
(*   - the Publisher / Listener relay (core/publisher.py).                 *)
(* Each part has its own specification over its own variables; the other   *)
(* parts' variables stay unchanged under it.                               *)
(***************************************************************************)
EXTENDS Integers, Sequences, FiniteSets, TLC

VARIABLES
    \* ---- property registry (class definition time)
    regs,        \* heap of registry objects: Seq of [props, model_name]
    clsAttr,     \* class -> index in regs of the class's OWN _model_props, 0 if inherited
    defining,    \* the class whose body is being bound, or "none"
    defined,     \* classes whose definition is complete
    declared     \* <<class, name>> pairs for which __set_name__ has run

regVars == <<regs, clsAttr, defining, defined, declared>>

VARIABLES
    \* ---- Feature / ModelProp descriptors of one model class and its instances
    fvalue,      \* Feature -> the descriptor's cached `value` (one per class attribute)
    config,      \* instance -> configuration store (key -> value)
    last,        \* the last property access and what it did
    nreads,      \* cached Feature -> reads since the last write: 0, 1, or 2 for "more"
    first        \* cached Feature -> what the first read since the last write returned

featVars == <<fvalue, config, last, nreads, first>>

VARIABLES
    \* ---- the Basler camera model
    cam,         \* the BaslerCamera instance and the device behind its driver
    camlast,     \* the last camera operation and what it did
    freerun      \* start_free_run() calls since the last stop_free_run()

camVars == <<cam, camlast, freerun>>

VARIABLES
    \* ---- the Publisher / Listener relay
    pc,          \* Publisher -> where its run() stands
    timer,       \* Publisher -> seconds left of the sleep() it is in
    portPub,     \* the Publisher bound to the publish port, or "free"
    portPull,    \* the Publisher bound to the internal relay port, or "free"
    pipe,        \* two-part messages pushed to the relay port and not yet received
    event,       \* stop flag -> whether it is set
    hand,        \* Publisher -> the (topic, data) it received and is processing
    recvd,       \* Publisher -> the messages it has received, in order
    emitted,     \* Publisher -> the messages it has sent on its fan-out socket
    pushes,      \* Publisher -> the messages its start-up pushed to the relay port
    binds,       \* Publisher -> the outcomes of its binds of the publish port
    found,       \* Publisher -> what held the port when its first bind failed,
                 \*   kept until its retry
    npublished   \* Listener.i : messages published through the Listener

pubVars == <<pc, timer, portPub, portPull, pipe, event, hand, recvd, emitted,
             pushes, binds, found, npublished>>

VARIABLES
    \* ---- the region of interest of the Basler camera
    roi,         \* the device's ROI registers and what the instance caches of them
    roilast      \* the last access of the ROI Feature and what it did

roiVars == <<roi, roilast>>

VARIABLES
    \* ---- exposure, gain and their automatic modes on the Basler camera
    ctl,         \* the device's registers and the instance's configuration store
    ctllast      \* the last access of one of these Features and what it did

ctlVars == <<ctl, ctllast>>

VARIABLES
    \* ---- methods decorated with make_async_thread
    inst_threads, \* the attribute _threads of each object
    spawned,      \* the Thread objects created so far, in the order of creation
    thrcalls,     \* the calls of decorated methods made so far, in order
    thrlast       \* what the last call found, and its thread when it returned

thrVars == <<inst_threads, spawned, thrcalls, thrlast>>

VARIABLES
    \* ---- BaslerCamera.initialize()
    ini,         \* the camera's driver, friendly_name and initial_config
    inilast      \* the last initialize(): what enumerated and what it did

iniVars == <<ini, inilast>>

VARIABLES
    \* ---- BaslerCamera.continuous_reads() and finalize()
    loop,        \* the thread running continuous_reads and the flag keep_reading
    fin          \* where finalize() stands and the calls it has completed

loopVars == <<loop, fin>>

VARIABLES
    \* ---- Publisher.stop()
    stopcall     \* where stop() stands, what it has done and what it published

stopVars == <<stopcall>>

VARIABLES
    \* ---- the driver of the Analog Discovery board
    ad,          \* the handle hdwf, the native library's registers, the calls made
    adlast       \* the last call of a driver method and what it did

adVars == <<ad, adlast>>

VARIABLES
    \* ---- the Experiment of examples/track/app.py
    app,         \* the Experiment's lists and where the script stands
    applast      \* the last registration and the instances it constructed

appVars == <<app, applast>>

VARIABLES
    \* ---- the ROI setter of the Basler camera, one SetValue at a time
    roiset       \* the request, and how many calls of the setter have returned

rsVars == <<roiset>>

VARIABLES
    \* ---- Model._collect_properties()
    mdl,         \* what the class of the instance declares, and _properties
    mdllast      \* the last _collect_properties(): what it looked at and did

mdlVars == <<mdl, mdllast>>

VARIABLES
    \* ---- two threads calling decorated methods of one object
    shared,        \* the attribute _threads, the lists and the Threads created
    caller       \* where each calling thread stands in func_wrapper

raceVars == <<shared, caller>>

\* The state of the parts added last.
moreVars == <<loopVars, stopVars, adVars, appVars, rsVars, mdlVars, raceVars>>

\* The state of the parts that follow the relay.
laterVars == <<roiVars, ctlVars, thrVars, iniVars, moreVars>>

vars == <<regVars, featVars, camVars, pubVars, laterVars>>

otherThanReg == <<featVars, camVars, pubVars, laterVars>>

otherThanFeat == <<regVars, camVars, pubVars, laterVars>>

otherThanCam == <<regVars, featVars, pubVars, laterVars>>

otherThanRoi == <<regVars, featVars, camVars, pubVars, ctlVars, thrVars, iniVars, moreVars>>

otherThanCtl == <<regVars, featVars, camVars, pubVars, roiVars, thrVars, iniVars, moreVars>>

otherThanThr == <<regVars, featVars, camVars, pubVars, roiVars, ctlVars, iniVars, moreVars>>

otherThanIni == <<regVars, featVars, camVars, pubVars, roiVars, ctlVars, thrVars, moreVars>>

otherThanPub == <<regVars, featVars, camVars, laterVars>>

\* continuous_reads() and finalize() act on the camera as well.
otherThanLoop == <<regVars, featVars, pubVars, roiVars, ctlVars, thrVars, iniVars,
                   stopVars, adVars, appVars, rsVars, mdlVars, raceVars>>

\* Publisher.stop() acts on the relay as well.
otherThanStop == <<regVars, featVars, camVars, roiVars, ctlVars, thrVars, iniVars,
                   loopVars, adVars, appVars, rsVars, mdlVars, raceVars>>

otherThanAd == <<regVars, featVars, camVars, pubVars, roiVars, ctlVars, thrVars, iniVars,
                 loopVars, stopVars, appVars, rsVars, mdlVars, raceVars>>

otherThanApp == <<regVars, featVars, camVars, pubVars, roiVars, ctlVars, thrVars,
                  iniVars, loopVars, stopVars, adVars, rsVars, mdlVars, raceVars>>

\* The ROI setter, call by call, acts on the region of interest as well.
otherThanRoiSet == <<regVars, featVars, camVars, pubVars, ctlVars, thrVars, iniVars,
                     loopVars, stopVars, adVars, appVars, mdlVars, raceVars>>

otherThanColl == <<regVars, featVars, camVars, pubVars, roiVars, ctlVars, thrVars,
                   iniVars, loopVars, stopVars, adVars, appVars, rsVars, raceVars>>

otherThanRace == <<regVars, featVars, camVars, pubVars, roiVars, ctlVars, thrVars, iniVars,
                   loopVars, stopVars, adVars, appVars, rsVars, mdlVars>>

(***************************************************************************)
(* PART 1.  The property registry.                                         *)
(***************************************************************************)

\* Properties a class body may declare (each class declares between one and
\* NamesPerClass of its own names).
NamesPerClass == 2

Classes == {"A", "B", "C"}

\* class A(Base), class B(A), class C(A)
Parent(c) == IF c = "A" THEN "Base" ELSE "A"

OwnNames(c) ==
    {<<c, i>> : i \in 1..NamesPerClass}

Kinds == {"Feature", "ModelProp"}

\* The registry object the root model class carries before any property is
\* declared: an empty mapping without a model_name attribute.
RootRegistry == [props |-> {}, model_name |-> "None"]

\* object.__qualname__ : the qualified name of the builtin `object`, whatever
\* the owner class is.
object_qualname == "object"

\* owner._model_props : ordinary attribute lookup along the base classes.
RECURSIVE Lookup(_, _)
Lookup(attr, c) ==
    IF c = "Base" THEN 1
    ELSE IF attr[c] # 0 THEN attr[c]
    ELSE Lookup(attr, Parent(c))

\* Feature.__set_name__ / ModelProp.__set_name__ (the two bodies are the same
\* text): returns the new heap and the new class attribute table.
SetNameEffect(heap, attr, owner, name, kind) ==
    LET mp == Lookup(attr, owner)
        entry == [name |-> name, kind |-> kind]
    IN  IF heap[mp].model_name # object_qualname
        THEN \* model_props.__class__(**model_props); setattr(.., 'model_name', ..)
             LET copy == [props |-> heap[mp].props, model_name |-> object_qualname]
                 h2 == Append(heap, copy)
                 id == Len(h2)
             IN  [heap |-> [h2 EXCEPT ![id].props = @ \cup {entry}],
                  attr |-> [attr EXCEPT ![owner] = id]]
        ELSE [heap |-> [heap EXCEPT ![mp].props = @ \cup {entry}],
              attr |-> attr]

InitReg ==
    /\ regs = <<RootRegistry>>
    /\ clsAttr = [c \in Classes |-> 0]
    /\ defining = "none"
    /\ defined = {}
    /\ declared = {}

\* The interpreter starts executing a class statement; the base class must
\* already exist.
ClassBegin(c) ==
    /\ defining = "none"
    /\ c \notin defined
    /\ Parent(c) \in defined \cup {"Base"}
    /\ defining' = c
    /\ UNCHANGED <<regs, clsAttr, defined, declared>>
    /\ UNCHANGED otherThanReg

SetName(owner, name, kind) ==
    /\ defining = owner
    /\ name \in OwnNames(owner)
    /\ <<owner, name>> \notin declared
    /\ LET r == SetNameEffect(regs, clsAttr, owner, name, kind)
       IN  /\ regs' = r.heap
           /\ clsAttr' = r.attr
    /\ declared' = declared \cup {<<owner, name>>}
    /\ UNCHANGED <<defining, defined>>
    /\ UNCHANGED otherThanReg

Feature_set_name(owner, name) == SetName(owner, name, "Feature")

ModelProp_set_name(owner, name) == SetName(owner, name, "ModelProp")

\* type.__new__ has called __set_name__ for every descriptor of the body.
ClassEnd(c) ==
    /\ defining = c
    /\ \E n \in OwnNames(c) : <<c, n>> \in declared
    /\ defining' = "none"
    /\ defined' = defined \cup {c}
    /\ UNCHANGED <<regs, clsAttr, declared>>
    /\ UNCHANGED otherThanReg

NextReg ==
    \/ \E c \in Classes : ClassBegin(c)
    \/ \E c \in Classes : \E n \in OwnNames(c) : Feature_set_name(c, n)
    \/ \E c \in Classes : \E n \in OwnNames(c) : ModelProp_set_name(c, n)
    \/ \E c \in Classes : ClassEnd(c)

\* The names cls._model_props holds.
RegistryNames(c) == {e.name : e \in regs[Lookup(clsAttr, c)].props}

DeclaredNames(c) == {n \in OwnNames(c) : <<c, n>> \in declared}

(***************************************************************************)
(* PART 2.  Feature and ModelProp descriptors.                             *)
(***************************************************************************)

\* Values a getter returns and a caller writes: 0..MaxVal, and None.
MaxVal == 1

\* Python's None.
NoneVal == -1

\* A Python str, a Python int and None as values that carry their type.
PyStr(v) == [type |-> "str", v |-> v]

PyInt(n) == [type |-> "int", n |-> n]

PyNone == [type |-> "NoneType"]

Values == 0..MaxVal

PyValues == Values \cup {NoneVal}

Instances == {"i1", "i2"}

\* The properties declared on the model class:
\*   plain    @Feature()                              getter and setter
\*   cached   @Feature(setting=True)                  force_update_arg defaults to None
\*   cached0  @Feature(setting=True, force_update_arg=0)
\*   mprop    @ModelProp()                            getter and setter
\*   ronly    @Feature()                              getter only
\*   wonly    ModelProp(fset=...)                     setter only
\*   fwonly   Feature(fset=...)                       setter only
\*   mronly   @ModelProp()                            getter only
Props == {"plain", "cached", "cached0", "mprop", "ronly", "wonly", "fwonly", "mronly"}

Features == {"plain", "cached", "cached0", "ronly", "fwonly"}

\* self.name of a bound descriptor.  `name = ''` is a class attribute of
\* Feature and of ModelProp; __init__ does not assign it and __set_name__
\* only registers the descriptor in owner._model_props, so self.name reads
\* the class attribute whatever attribute name the descriptor is bound to.
DescriptorName(p) == ""

\* Feature.__init__ / ModelProp.__init__ for the declarations above.
Descriptor(p) ==
    [kind         |-> IF p \in Features THEN "Feature" ELSE "ModelProp",
     has_fget     |-> p \notin {"wonly", "fwonly"},
     has_fset     |-> p \notin {"ronly", "mronly"},
     is_setting   |-> p \in {"cached", "cached0"},
     force_update |-> IF p = "cached0" THEN 0 ELSE NoneVal,
     name         |-> DescriptorName(p)]

CachedFeatures == {p \in Features : Descriptor(p).is_setting}

ConfigKeys == Props \cup {""}

\* ConfigurationStore.upgrade({key: val}, force): merges the pair into the
\* store; an entry that already holds a value is overwritten only when forced.
Upgrade(cfg, key, val, force) ==
    IF force \/ cfg[key] = NoneVal THEN [cfg EXCEPT ![key] = val] ELSE cfg

\* The outcome of one descriptor access.
\*   raised  "no" or the exception that left the access
\*   called  whether fget was invoked
\*   ret     what a read returned; for a write, what fget returned if invoked
\*   value   the descriptor's cached value afterwards
\*   cfg     the instance's configuration store afterwards
Outcome(raised, called, ret, value, cfg) ==
    [raised |-> raised, called |-> called, ret |-> ret, value |-> value, cfg |-> cfg]

\* Feature.__get__ without its cache: the getter is invoked by every read.
Feature_get_uncached(d, value, cfg, gv) ==
    IF ~d.has_fget
    THEN [raised |-> "AttributeError", called |-> FALSE, ret |-> NoneVal,
          value |-> value, cfg |-> cfg]
    ELSE [raised |-> "no", called |-> TRUE, ret |-> gv, value |-> value,
          cfg |-> [cfg EXCEPT ![d.name] = gv]]

\* Feature.__get__ without its test of fget.
Feature_get_unchecked(d, value, cfg, gv) ==
    IF d.is_setting /\ value # d.force_update
    THEN [raised |-> "no", called |-> FALSE, ret |-> value, value |-> value, cfg |-> cfg]
    ELSE [raised |-> "no", called |-> TRUE, ret |-> gv, value |-> value,
          cfg |-> [cfg EXCEPT ![d.name] = gv]]

\* Feature.__get__(instance, owner) with instance not None; gv is what
\* self.fget(instance) returns if it is invoked.
Feature_get(d, value, cfg, gv) ==
    IF ~d.has_fget
    THEN Outcome("AttributeError", FALSE, NoneVal, value, cfg)
    ELSE IF d.is_setting /\ value # d.force_update
    THEN Outcome("no", FALSE, value, value, cfg)
    ELSE Outcome("no", TRUE, gv, value, Upgrade(cfg, d.name, gv, TRUE))

\* Feature.__set__(instance, v); setok tells whether self.fset(instance, v)
\* returns (TRUE) or raises (FALSE).
Feature_set(d, value, cfg, v, gv, setok) ==
    IF ~d.has_fset
    THEN Outcome("AttributeError", FALSE, NoneVal, value, cfg)
    ELSE IF d.is_setting /\ d.force_update = v
    THEN Outcome("no", TRUE, gv, gv, Upgrade(cfg, d.name, gv, TRUE))
    ELSE IF ~setok
    THEN Outcome("SetterError", FALSE, NoneVal, value, cfg)
    ELSE Outcome("no", FALSE, NoneVal, v, Upgrade(cfg, d.name, v, TRUE))

\* ModelProp.__get__
ModelProp_get(d, cfg, gv) ==
    IF ~d.has_fget
    THEN Outcome("AttributeError", FALSE, NoneVal, NoneVal, cfg)
    ELSE Outcome("no", TRUE, gv, NoneVal, Upgrade(cfg, d.name, gv, TRUE))

\* ModelProp.__set__
ModelProp_set(d, cfg, v, setok) ==
    IF ~d.has_fset
    THEN Outcome("AttributeError", FALSE, NoneVal, NoneVal, cfg)
    ELSE IF ~setok
    THEN Outcome("SetterError", FALSE, NoneVal, NoneVal, cfg)
    ELSE Outcome("no", FALSE, NoneVal, NoneVal, Upgrade(cfg, d.name, v, TRUE))

NoAccess ==
    [op |-> "none", inst |-> "i1", prop |-> "plain", arg |-> NoneVal,
     raised |-> "no", called |-> FALSE, ret |-> NoneVal]

\* An access as the caller and the getter saw it: arg is the value written,
\* ret the value a read returned or, for a write, the value fget returned
\* when the write invoked it.
Access(op, i, p, v, o) ==
    [op |-> op, inst |-> i, prop |-> p, arg |-> v,
     raised |-> o.raised, called |-> o.called, ret |-> o.ret]

InitFeat ==
    /\ fvalue = [p \in Features |-> NoneVal]
    /\ config = [i \in Instances |-> [k \in ConfigKeys |-> NoneVal]]
    /\ last = NoAccess
    /\ nreads = [p \in CachedFeatures |-> 0]
    /\ first = [p \in CachedFeatures |-> NoneVal]

\* The values fget may return in an access that invokes it.
GetterValues(invoked) == IF invoked THEN PyValues ELSE {NoneVal}

\* x = instance.p for a Feature p: the descriptor, the store and the record
\* of the access.
FeatureRead(i, p) ==
    /\ p \in Features
    /\ LET d == Descriptor(p)
           invoked == d.has_fget /\ ~(d.is_setting /\ fvalue[p] # d.force_update)
       IN  \E gv \in GetterValues(invoked) :
             LET o == Feature_get(d, fvalue[p], config[i], gv)
             IN  /\ config' = [config EXCEPT ![i] = o.cfg]
                 /\ last' = Access("read", i, p, NoneVal, o)
    /\ UNCHANGED fvalue
    /\ UNCHANGED otherThanFeat

\* instance.p = v for a Feature p
FeatureWrite(i, p) ==
    /\ p \in Features
    /\ LET d == Descriptor(p)
       IN  \E v \in PyValues :
           LET refresh == d.has_fset /\ d.is_setting /\ d.force_update = v
           IN  \E gv \in GetterValues(refresh) :
               \E setok \in (IF d.has_fset /\ ~refresh THEN BOOLEAN ELSE {TRUE}) :
                 LET o == Feature_set(d, fvalue[p], config[i], v, gv, setok)
                 IN  /\ fvalue' = [fvalue EXCEPT ![p] = o.value]
                     /\ config' = [config EXCEPT ![i] = o.cfg]
                     /\ last' = Access("write", i, p, v, o)
    /\ UNCHANGED otherThanFeat

ReadFeature(i, p) ==
    /\ FeatureRead(i, p)
    /\ UNCHANGED <<nreads, first>>

WriteFeature(i, p) ==
    /\ FeatureWrite(i, p)
    /\ UNCHANGED <<nreads, first>>

\* x = instance.p for a ModelProp p
ReadModelProp(i, p) ==
    /\ p \in Props \ Features
    /\ LET d == Descriptor(p)
       IN  \E gv \in GetterValues(d.has_fget) :
             LET o == ModelProp_get(d, config[i], gv)
             IN  /\ config' = [config EXCEPT ![i] = o.cfg]
                 /\ last' = Access("read", i, p, NoneVal, o)
    /\ UNCHANGED <<fvalue, nreads, first>>
    /\ UNCHANGED otherThanFeat

\* instance.p = v for a ModelProp p
WriteModelProp(i, p) ==
    /\ p \in Props \ Features
    /\ LET d == Descriptor(p)
       IN  \E v \in PyValues :
           \E setok \in (IF d.has_fset THEN BOOLEAN ELSE {TRUE}) :
             LET o == ModelProp_set(d, config[i], v, setok)
             IN  /\ config' = [config EXCEPT ![i] = o.cfg]
                 /\ last' = Access("write", i, p, v, o)
    /\ UNCHANGED <<fvalue, nreads, first>>
    /\ UNCHANGED otherThanFeat

\* All the descriptors, accessed through one instance.
NextFeat ==
    \/ \E p \in Props : ReadFeature("i1", p)
    \/ \E p \in Props : WriteFeature("i1", p)
    \/ \E p \in Props : ReadModelProp("i1", p)
    \/ \E p \in Props : WriteModelProp("i1", p)

\* A read of a cached-setting Feature, counted: the reads since the last
\* write of the Feature and what the first of them returned.
ReadCached(i, p) ==
    /\ p \in CachedFeatures
    /\ FeatureRead(i, p)
    /\ nreads' = [nreads EXCEPT ![p] = IF @ = 0 THEN 1 ELSE 2]
    /\ first' = IF nreads[p] = 0 THEN [first EXCEPT ![p] = last'.ret] ELSE first

\* A write of a cached-setting Feature: a write that returns starts a new
\* sequence of reads.
WriteCached(i, p) ==
    /\ p \in CachedFeatures
    /\ FeatureWrite(i, p)
    /\ IF last'.raised = "no"
       THEN /\ nreads' = [nreads EXCEPT ![p] = 0]
            /\ first' = [first EXCEPT ![p] = NoneVal]
       ELSE UNCHANGED <<nreads, first>>

\* The cached-setting Features, accessed through every instance.
NextCached ==
    \/ \E i \in Instances, p \in CachedFeatures : ReadCached(i, p)
    \/ \E i \in Instances, p \in CachedFeatures : WriteCached(i, p)

(***************************************************************************)
(* PART 3.  The Basler camera model.                                       *)
(***************************************************************************)

\* Frames the device delivers in one run of the model.
MaxFrames == 2

\* BaseCamera.MODE_SINGLE_SHOT, MODE_CONTINUOUS, MODE_LAST
MODE_SINGLE_SHOT == "single_shot"

MODE_CONTINUOUS == "continuous"

MODE_LAST == "last"

Modes == {MODE_SINGLE_SHOT, MODE_CONTINUOUS, MODE_LAST}

PixelFormats == {"Mono8", "Mono12", "Mono12p"}

\* The Features of BaslerCamera that the operations below read or write.
CamFeatures == {"acquisition_mode", "pixel_format", "exposure"}

\* The store's entry under the name every descriptor writes to ('') holds in
\* turn the values of all the camera's Features: an int or None for exposure,
\* a str for the others.  It is kept as a value that carries its type.
MirrorTyped(cfg, p) ==
    [cfg EXCEPT ![DescriptorName(p)] =
        IF p # "exposure" THEN PyStr(@)
        ELSE IF @ = NoneVal THEN PyNone ELSE PyInt(@)]

\* @Feature() : no option is given, so is_setting is False and force_update None.
CamDescriptor(p) ==
    [kind         |-> "Feature",
     has_fget     |-> TRUE,
     has_fset     |-> TRUE,
     is_setting   |-> FALSE,
     force_update |-> NoneVal,
     name         |-> DescriptorName(p)]

\* x = self.<p> inside a method of the camera: Feature.__get__ with the value
\* gv the property's getter returns; the camera afterwards.
CamRead(c, p, gv) ==
    LET o == Feature_get(CamDescriptor(p), c.fvalue[p], c.cfg, gv)
    IN  [c EXCEPT !.cfg = MirrorTyped(o.cfg, p)]

\* BaslerCamera.acquisition_mode, the getter
acquisition_mode_get(c) == c.acq_mode

\* BaslerCamera.acquisition_mode, the setter: only the continuous and the
\* single-shot mode are taken over; any other value leaves _acquisition_mode.
acquisition_mode_set(c, mode) ==
    IF mode = MODE_CONTINUOUS THEN [c EXCEPT !.acq_mode = mode]
    ELSE IF mode = MODE_SINGLE_SHOT THEN [c EXCEPT !.acq_mode = mode]
    ELSE c

\* self.acquisition_mode = mode : Feature.__set__ around the setter.
CamWriteMode(c, mode) ==
    LET c1 == acquisition_mode_set(c, mode)
        o == Feature_set(CamDescriptor("acquisition_mode"),
                         c1.fvalue["acquisition_mode"], c1.cfg, mode, NoneVal, TRUE)
    IN  [c1 EXCEPT !.cfg = MirrorTyped(o.cfg, "acquisition_mode"),
                   !.fvalue["acquisition_mode"] = o.value]

\* BaslerCamera.exposure, the getter: the stored value when there is one,
\* otherwise the device register, and the stored value again on a timeout.
exposure_get(c, timeout) ==
    IF c.cfg["exposure"] # NoneVal THEN c.cfg["exposure"]
    ELSE IF ~timeout THEN c.dev_exposure
    ELSE c.cfg["exposure"]

\* A StopGrabbing that leaves the device as it is.
StopGrabbing_nothing(c) == c

\* self._driver.StopGrabbing(): the grab ends and its buffers are dropped.
StopGrabbing(c) ==
    [c EXCEPT !.grabbing = FALSE, !.strategy = "none", !.buffers = <<>>]

\* A StartGrabbing that ignores the strategy it is given.
StartGrabbing_OneByOne(c, strategy) ==
    [c EXCEPT !.grabbing = TRUE, !.strategy = "OneByOne", !.buffers = <<>>]

\* self._driver.StartGrabbing(strategy)
StartGrabbing(c, strategy) ==
    [c EXCEPT !.grabbing = TRUE, !.strategy = strategy, !.buffers = <<>>]

\* The result of a camera method: the camera afterwards, the exception that
\* left the method ("no" if it returned), the software triggers it issued,
\* the RetrieveResult calls it made and the list it returned.
CamResult(c, raised, triggers, retrieved, ret) ==
    [c |-> c, raised |-> raised, triggers |-> triggers,
     retrieved |-> retrieved, ret |-> ret]

\* BaslerCamera.trigger_camera()
trigger_camera(c) ==
    LET c1 == StopGrabbing(c)
        mode == acquisition_mode_get(c1)
        c2 == CamRead(c1, "acquisition_mode", mode)
        c3 == IF mode = MODE_CONTINUOUS THEN StartGrabbing(c2, "OneByOne")
              ELSE IF mode = MODE_SINGLE_SHOT THEN StartGrabbing(c2, "LatestImageOnly")
              ELSE IF mode = MODE_LAST THEN StartGrabbing(c2, "LatestImages")
              ELSE c2
        \* if self.pixel_format == 'Mono8': ... elif self.pixel_format == 'Mono12': ...
        c4 == CamRead(c3, "pixel_format", c3.pixel_format)
        c5 == IF c4.pixel_format = "Mono8" THEN [c4 EXCEPT !.current_dtype = "uint8"]
              ELSE IF c4.pixel_format = "Mono12" THEN [c4 EXCEPT !.current_dtype = "uint16"]
              ELSE c4
    IN  IF mode \notin Modes
        THEN CamResult(c2, "CameraException", 0, 0, <<>>)
        ELSE CamResult(c5, "no", 1, 0, <<>>)

\* One RetrieveResult call on the head of the device's output queue: ok tells
\* whether the grab succeeded.
Retrieved(c, ok) ==
    [c    |-> [c EXCEPT !.buffers = Tail(@)],
     data |-> IF ok THEN Head(c.buffers) ELSE 0]

\* The loop of read_camera() over the ready buffers.  img is a list of
\* num_buffers references to ONE zero-filled array ([np.zeros(..)] * n), so
\* img[i][:, :] = data overwrites the array every entry refers to: arr is
\* that array's content (0 while it still holds zeros).
RECURSIVE DrainBuffers(_, _, _, _)
DrainBuffers(c, oks, arr, tot) ==
    IF oks = <<>> THEN [c |-> c, arr |-> arr, tot |-> tot]
    ELSE LET r == Retrieved(c, Head(oks))
         IN  IF Head(oks)
             THEN DrainBuffers(r.c, Tail(oks), r.data, tot + 1)
             ELSE DrainBuffers(r.c, Tail(oks), arr, tot)

\* A variant of the check below that never refuses a read.
MustTriggerFirst_never(c) == FALSE

\* read_camera(): `if not self._driver.IsGrabbing(): raise WrongCameraState(..)`
MustTriggerFirst(c) == ~c.grabbing

\* BaslerCamera.read_camera().  tmo: the exposure register times out when it
\* is read; oks: for each RetrieveResult call in turn, whether a frame is
\* there and its grab succeeded.
read_camera(c, tmo, oks) ==
    LET mode == acquisition_mode_get(c)
        c1 == CamRead(c, "acquisition_mode", mode)
        exposure == exposure_get(c1, tmo)
        c2 == CamRead(c1, "exposure", exposure)
    IN  IF mode = MODE_SINGLE_SHOT \/ mode = MODE_LAST
        THEN IF exposure = NoneVal
             THEN \* None.m_as('ms')
                  CamResult(c2, "AttributeError", 0, 0, <<>>)
             ELSE LET got == c2.buffers # <<>> /\ Head(oks)
                      c3 == IF c2.buffers # <<>> THEN Retrieved(c2, TRUE).c ELSE c2
                      c4 == IF got THEN [c3 EXCEPT !.temp_image = Head(c2.buffers)]
                            ELSE c3
                      c5 == IF mode = MODE_SINGLE_SHOT THEN StopGrabbing(c4) ELSE c4
                  IN  CamResult(c5, "no", 0, 1,
                                IF got THEN <<Head(c2.buffers)>> ELSE <<>>)
        ELSE IF MustTriggerFirst(c1)
        THEN CamResult(c1, "WrongCameraState", 0, 0, <<>>)
        ELSE LET n == Len(c1.buffers)
             IN  IF n = 0 THEN CamResult(c1, "no", 0, 0, <<>>)
                 ELSE IF exposure = NoneVal
                 THEN CamResult(c2, "AttributeError", 0, 0, <<>>)
                 ELSE LET d == DrainBuffers(c2, oks, 0, 0)
                          img == [k \in 1..d.tot |-> d.arr]
                          c3 == IF d.tot >= 1
                                THEN [d.c EXCEPT !.temp_image = d.arr] ELSE d.c
                      IN  CamResult(c3, "no", 0, n, img)

\* A variant of the check below that never finds the free run started.
AlreadyRunning_never(c) == FALSE

\* start_free_run(): `if self.free_run_running: ... return`
AlreadyRunning(c) == c.free_run_running

\* BaslerCamera.start_free_run()
start_free_run(c) ==
    IF AlreadyRunning(c)
    THEN CamResult(c, "no", 0, 0, <<>>)
    ELSE LET c1 == [c EXCEPT !.free_run_running = TRUE]
             c2 == CamWriteMode(c1, MODE_CONTINUOUS)
         IN  trigger_camera(c2)

\* BaslerCamera.stop_free_run()
stop_free_run(c) ==
    CamResult([StopGrabbing(c) EXCEPT !.free_run_running = FALSE], "no", 0, 0, <<>>)

\* BaslerCamera.stop_camera()
stop_camera(c) ==
    CamResult(StopGrabbing(c), "no", 0, 0, <<>>)

\* The camera after BaslerCamera.__init__ and initialize(): the class default
\* _acquisition_mode, no free run, the device open and not grabbing, and the
\* stored exposure as initialize()'s fetch_all left it.
InitCamera(mode) ==
    /\ cam = [acq_mode         |-> mode,
              free_run_running |-> FALSE,
              grabbing         |-> FALSE,
              strategy         |-> "none",
              buffers          |-> <<>>,
              delivered        |-> 0,
              pixel_format     |-> "Mono8",
              dev_exposure     |-> 1,
              current_dtype    |-> "unset",
              temp_image       |-> 0,
              cfg              |-> [k \in CamFeatures \cup {""} |->
                                       IF k = "exposure" THEN 1
                                       ELSE IF k = "" THEN PyNone ELSE NoneVal],
              fvalue           |-> [p \in CamFeatures |-> NoneVal]]
    /\ camlast = [op |-> "none", raised |-> "no", triggers |-> 0, retrieved |-> 0,
                  ret |-> <<>>, oks |-> <<>>,
                  before |-> [acq_mode |-> mode, free_run_running |-> FALSE,
                              grabbing |-> FALSE, temp_image |-> 0,
                              buffers |-> <<>>]]
    /\ freerun = [calls |-> 0, triggers |-> 0]

\* `_acquisition_mode = BaseCamera.MODE_SINGLE_SHOT` in the class body
InitCam == InitCamera(MODE_SINGLE_SHOT)

\* A value of _acquisition_mode that is none of the three mode constants.
UnknownMode == "unknown"

\* _acquisition_mode is a class attribute that trigger_camera() and
\* read_camera() test against all three mode constants, with a branch for a
\* value that is none of them, while the setter of acquisition_mode takes
\* over only two of them: a camera is in the third mode, or in no known
\* mode, when its class, or the code that uses it, assigns the attribute.
InitCamAnyMode == \E mode \in Modes \cup {UnknownMode} : InitCamera(mode)

\* What an operation leaves in camlast: its result, the grab outcomes it met
\* (oks) and, in `before`, the acquisition mode, running flag, grab state,
\* cached frame and ready buffers it found.
CamDoneWith(op, r, oks) ==
    /\ cam' = r.c
    /\ camlast' = [op |-> op, raised |-> r.raised, triggers |-> r.triggers,
                   retrieved |-> r.retrieved, ret |-> r.ret, oks |-> oks,
                   before |-> [acq_mode |-> cam.acq_mode,
                               free_run_running |-> cam.free_run_running,
                               grabbing |-> cam.grabbing,
                               temp_image |-> cam.temp_image,
                               buffers |-> cam.buffers]]

CamDone(op, r) == CamDoneWith(op, r, <<>>)

Sat(n) == IF n > 2 THEN 2 ELSE n

StartFreeRun ==
    /\ LET r == start_free_run(cam)
       IN  /\ CamDone("start_free_run", r)
           /\ freerun' = [calls    |-> Sat(freerun.calls + 1),
                          triggers |-> Sat(freerun.triggers + r.triggers)]
    /\ UNCHANGED otherThanCam

StopFreeRun ==
    /\ CamDone("stop_free_run", stop_free_run(cam))
    /\ freerun' = [calls |-> 0, triggers |-> 0]
    /\ UNCHANGED otherThanCam

StopCamera ==
    /\ CamDone("stop_camera", stop_camera(cam))
    /\ UNCHANGED freerun
    /\ UNCHANGED otherThanCam

TriggerCamera ==
    /\ CamDone("trigger_camera", trigger_camera(cam))
    /\ UNCHANGED freerun
    /\ UNCHANGED otherThanCam

\* The grab outcomes read_camera() can meet: one per RetrieveResult call.
GrabOutcomes(c) ==
    IF c.acq_mode \in {MODE_SINGLE_SHOT, MODE_LAST}
    THEN IF c.buffers = <<>> THEN {<<FALSE>>} ELSE {<<TRUE>>, <<FALSE>>}
    ELSE [1..Len(c.buffers) -> BOOLEAN]

ReadCamera ==
    /\ \E tmo \in (IF cam.cfg["exposure"] = NoneVal THEN BOOLEAN ELSE {FALSE}) :
       \E oks \in GrabOutcomes(cam) :
         CamDoneWith("read_camera", read_camera(cam, tmo, oks), oks)
    /\ UNCHANGED freerun
    /\ UNCHANGED otherThanCam

\* camera.acquisition_mode = mode, from the code that uses the camera
SetAcquisitionMode(mode) ==
    /\ CamDone("set_acquisition_mode", CamResult(CamWriteMode(cam, mode), "no", 0, 0, <<>>))
    /\ UNCHANGED freerun
    /\ UNCHANGED otherThanCam

\* camera.pixel_format = fmt : the setter applies it to the device.
SetPixelFormat(fmt) ==
    /\ LET c1 == [cam EXCEPT !.pixel_format = fmt]
           o == Feature_set(CamDescriptor("pixel_format"), c1.fvalue["pixel_format"],
                            c1.cfg, fmt, NoneVal, TRUE)
       IN  CamDone("set_pixel_format",
                   CamResult([c1 EXCEPT !.cfg = MirrorTyped(o.cfg, "pixel_format"),
                                        !.fvalue["pixel_format"] = o.value],
                             "no", 0, 0, <<>>))
    /\ UNCHANGED freerun
    /\ UNCHANGED otherThanCam

\* The device finishes a frame while it is grabbing and puts it in its
\* output queue; with the latest-image-only strategy the queue keeps one.
DeviceFrame ==
    /\ cam.grabbing
    /\ cam.delivered < MaxFrames
    /\ LET f == cam.delivered + 1
       IN  cam' = [cam EXCEPT !.delivered = f,
                              !.buffers = IF cam.strategy = "LatestImageOnly"
                                          THEN <<f>> ELSE Append(@, f)]
    /\ UNCHANGED <<camlast, freerun>>
    /\ UNCHANGED otherThanCam

NextCam ==
    \/ StartFreeRun
    \/ StopFreeRun
    \/ StopCamera
    \/ TriggerCamera
    \/ ReadCamera
    \/ \E m \in Modes : SetAcquisitionMode(m)
    \/ \E f \in PixelFormats : SetPixelFormat(f)
    \/ DeviceFrame

(***************************************************************************)
(* PART 4.  The Publisher / Listener relay.                                *)
(***************************************************************************)

\* Messages published through the Listener in one run of the model.
MaxPublished == 2

\* sleep(1) after the exit message is pushed; sleep(2) after both binds.
SleepAfterPush == 1

SleepAfterBind == 2

Publishers == {"p1", "p2", "p3"}

\* The stop flag each Publisher is constructed with: p1 and p3 are created by
\* one host program with its settings.GENERAL_STOP_EVENT, p2 by another
\* program with its own.
EventOf(p) == IF p = "p2" THEN "e2" ELSE "e1"

Events == {EventOf(p) : p \in Publishers}

\* settings.PUBLISHER_EXIT_KEYWORD, a str
PUBLISHER_EXIT_KEYWORD == "stop"

NdArray == [type |-> "ndarray", v |-> "data"]

\* The calls of Listener.publish(data, topic) that the model makes: the exit
\* keyword on the empty and on another topic, and another str and an object
\* that is no str on the empty topic.
PublishCalls ==
    {<<"", PyStr(PUBLISHER_EXIT_KEYWORD)>>, <<"t", PyStr(PUBLISHER_EXIT_KEYWORD)>>,
     <<"", PyStr("data")>>, <<"", NdArray>>}

\* send_string / recv_string : the str as UTF-8 bytes and back.
send_string(u) == [bytes |-> u]

recv_string(frame) == frame.bytes

\* send_pyobj / recv_pyobj : the object pickled and unpickled.
send_pyobj(obj) == [pickle |-> obj]

recv_pyobj(frame) == frame.pickle

\* socket.send_string(topic, zmq.SNDMORE); socket.send_pyobj(data)
TwoPart(topic, data) == <<send_string(topic), send_pyobj(data)>>

\* A variant of the test below that does not look at the topic.
IsExitCommand_anyTopic(topic, data) ==
    data.type = "str" /\ data.v = PUBLISHER_EXIT_KEYWORD

\* `if topic is "": if isinstance(data, str) and data == EXIT_KEYWORD`.
\* recv_string returns bytes.decode(), and CPython has one empty str object,
\* so `topic is ""` holds exactly for the empty topic.
IsExitCommand(topic, data) ==
    /\ topic = ""
    /\ data.type = "str" /\ data.v = PUBLISHER_EXIT_KEYWORD

\* A variant of the two sends below that sends the payload first.
Relay_payloadFirst(topic, data) == <<send_pyobj(data), send_string(topic)>>

\* publisher.send_string(topic, zmq.SNDMORE); publisher.send_pyobj(data)
Relay(topic, data) == TwoPart(topic, data)

\* A variant of the call below that flips the flag.
Event_set_flipped(ev, e) == [ev EXCEPT ![e] = ~@]

\* A variant of the call below that leaves the flag as it is.
Event_set_forgotten(ev, e) == ev

\* self._event.set()
Event_set(ev, e) == [ev EXCEPT ![e] = TRUE]

\* A variant of the message below that carries the keyword as the topic.
ExitPush_asTopic == TwoPart(PUBLISHER_EXIT_KEYWORD, PyStr(""))

\* temp.send_string("", zmq.SNDMORE); temp.send_pyobj(EXIT_KEYWORD)
ExitPush == TwoPart("", PyStr(PUBLISHER_EXIT_KEYWORD))

NoHolder == [by |-> "free", state |-> "none"]

\* time.sleep(secs) without the wait.
sleep_returns_at_once(tm, p, secs) == tm

\* time.sleep(secs) in Publisher p: p goes on when secs seconds have passed.
sleep(tm, p, secs) == [tm EXCEPT ![p] = secs]

NoHand == [topic |-> "", data |-> PyStr("")]

InitPub ==
    /\ pc = [p \in Publishers |-> "idle"]
    /\ timer = [p \in Publishers |-> 0]
    /\ portPub = "free"
    /\ portPull = "free"
    /\ pipe = <<>>
    /\ event = [e \in Events |-> FALSE]
    /\ hand = [p \in Publishers |-> NoHand]
    /\ recvd = [p \in Publishers |-> <<>>]
    /\ emitted = [p \in Publishers |-> <<>>]
    /\ pushes = [p \in Publishers |-> <<>>]
    /\ binds = [p \in Publishers |-> <<>>]
    /\ found = [p \in Publishers |-> NoHolder]
    /\ npublished = 0

\* The Publisher's process ends: the operating system closes its sockets.
\* Messages already handed to the closed receiver are lost with it (kept = FALSE);
\* messages still queued in the senders wait for the next receiver.
ProcessExit(p, kept) ==
    /\ portPub' = IF portPub = p THEN "free" ELSE portPub
    /\ portPull' = IF portPull = p THEN "free" ELSE portPull
    /\ pipe' = IF portPull = p /\ ~kept THEN <<>> ELSE pipe

\* The Publisher q that holds the publish port, as a failing bind finds it:
\* in its serve loop, or bound at both ports with the whole sleep(2) ahead,
\* or anywhere else.
Holder(q) ==
    [by |-> q,
     state |-> IF portPull = q /\ pc[q] \in {"loop", "recv", "emit", "check"}
                   THEN "serving"
               ELSE IF portPull = q /\ pc[q] = "wait" /\ timer[q] = SleepAfterBind
                   THEN "bound"
               ELSE "starting"]

\* publisher.start(): the process is created and run() begins.  p1 and p3
\* differ in their names only: p3 is the one of the two that starts later.
Start(p) ==
    /\ pc[p] = "idle"
    /\ p = "p3" => pc["p1"] # "idle"
    /\ pc' = [pc EXCEPT ![p] = "bind"]
    /\ UNCHANGED <<timer, portPub, portPull, pipe, event, hand, recvd, emitted,
                   pushes, binds, found, npublished>>
    /\ UNCHANGED otherThanPub

\* try: publisher.bind(publish port)
Bind(p) ==
    /\ pc[p] = "bind"
    /\ IF portPub = "free"
       THEN /\ portPub' = p
            /\ pc' = [pc EXCEPT ![p] = "bindpull"]
            /\ binds' = [binds EXCEPT ![p] = Append(@, "ok")]
            /\ found' = found
       ELSE /\ portPub' = portPub
            /\ pc' = [pc EXCEPT ![p] = "push"]
            /\ binds' = [binds EXCEPT ![p] = Append(@, "in use")]
            /\ found' = [found EXCEPT ![p] = Holder(portPub)]
    /\ UNCHANGED <<timer, portPull, pipe, event, hand, recvd, emitted, pushes, npublished>>
    /\ UNCHANGED otherThanPub

\* except zmq.ZMQError: temp = PUSH; temp.connect(relay port); push the exit
\* message; sleep(1)
Push(p) ==
    /\ pc[p] = "push"
    /\ pipe' = Append(pipe, ExitPush)
    /\ pushes' = [pushes EXCEPT ![p] = Append(@, ExitPush)]
    /\ timer' = sleep(timer, p, SleepAfterPush)
    /\ pc' = [pc EXCEPT ![p] = "retry"]
    /\ UNCHANGED <<portPub, portPull, event, hand, recvd, emitted, binds, found,
                   npublished>>
    /\ UNCHANGED otherThanPub

\* try: publisher.bind(publish port)  except zmq.ZMQError: raise
Retry(p) ==
    /\ pc[p] = "retry"
    /\ timer[p] = 0
    /\ IF portPub = "free"
       THEN /\ portPub' = p
            /\ pc' = [pc EXCEPT ![p] = "bindpull"]
            /\ binds' = [binds EXCEPT ![p] = Append(@, "ok")]
       ELSE /\ portPub' = portPub
            /\ pc' = [pc EXCEPT ![p] = "failed"]
            /\ binds' = [binds EXCEPT ![p] = Append(@, "in use")]
    /\ found' = [found EXCEPT ![p] = NoHolder]
    /\ UNCHANGED <<timer, portPull, pipe, event, hand, recvd, emitted, pushes,
                   npublished>>
    /\ UNCHANGED otherThanPub

\* listener = PULL; listener.bind(relay port); sleep(2).  A ZMQError of this
\* bind is not caught: the process ends and gives the publish port back.
BindPull(p) ==
    /\ pc[p] = "bindpull"
    /\ IF portPull = "free"
       THEN /\ portPull' = p
            /\ portPub' = portPub
            /\ timer' = sleep(timer, p, SleepAfterBind)
            /\ pc' = [pc EXCEPT ![p] = "wait"]
       ELSE /\ portPull' = portPull
            /\ portPub' = "free"
            /\ timer' = timer
            /\ pc' = [pc EXCEPT ![p] = "failed"]
    /\ UNCHANGED <<pipe, event, hand, recvd, emitted, pushes, binds, found, npublished>>
    /\ UNCHANGED otherThanPub

\* the sleep(2) is over
Ready(p) ==
    /\ pc[p] = "wait"
    /\ timer[p] = 0
    /\ pc' = [pc EXCEPT ![p] = "loop"]
    /\ UNCHANGED <<timer, portPub, portPull, pipe, event, hand, recvd, emitted,
                   pushes, binds, found, npublished>>
    /\ UNCHANGED otherThanPub

\* A flag that is never seen set.
is_set_never(ev, e) == FALSE

\* self._event.is_set()
is_set(ev, e) == ev[e]

\* while not self._event.is_set(): ... ; a set flag ends run() and the process
LoopTest(p) ==
    /\ pc[p] = "loop"
    /\ IF is_set(event, EventOf(p))
       THEN /\ pc' = [pc EXCEPT ![p] = "done"]
            /\ \E kept \in BOOLEAN : ProcessExit(p, kept)
       ELSE /\ pc' = [pc EXCEPT ![p] = "recv"]
            /\ UNCHANGED <<portPub, portPull, pipe>>
    /\ UNCHANGED <<timer, event, hand, recvd, emitted, pushes, binds, found, npublished>>
    /\ UNCHANGED otherThanPub

\* topic = listener.recv_string(); data = listener.recv_pyobj(); i += 1
Receive(p) ==
    /\ pc[p] = "recv"
    /\ portPull = p
    /\ pipe # <<>>
    /\ hand' = [hand EXCEPT ![p] = [topic |-> recv_string(Head(pipe)[1]),
                                    data  |-> recv_pyobj(Head(pipe)[2])]]
    /\ recvd' = [recvd EXCEPT ![p] = Append(@, Head(pipe))]
    /\ pipe' = Tail(pipe)
    /\ pc' = [pc EXCEPT ![p] = "emit"]
    /\ UNCHANGED <<timer, portPub, portPull, event, emitted, pushes, binds, found, npublished>>
    /\ UNCHANGED otherThanPub

\* publisher.send_string(topic, zmq.SNDMORE); publisher.send_pyobj(data)
Emit(p) ==
    /\ pc[p] = "emit"
    /\ emitted' = [emitted EXCEPT ![p] = Append(@, Relay(hand[p].topic, hand[p].data))]
    /\ pc' = [pc EXCEPT ![p] = "check"]
    /\ UNCHANGED <<timer, portPub, portPull, pipe, event, hand, recvd, pushes, binds,
                   found, npublished>>
    /\ UNCHANGED otherThanPub

\* if topic is "": if isinstance(data, str) and data == EXIT: self._event.set()
Check(p) ==
    /\ pc[p] = "check"
    /\ event' = IF IsExitCommand(hand[p].topic, hand[p].data)
                THEN Event_set(event, EventOf(p)) ELSE event
    /\ pc' = [pc EXCEPT ![p] = "loop"]
    /\ UNCHANGED <<timer, portPub, portPull, pipe, hand, recvd, emitted, pushes, binds,
                   found, npublished>>
    /\ UNCHANGED otherThanPub

\* Listener.publish(data, topic) on the module's Listener
Publish(topic, data) ==
    /\ npublished < MaxPublished
    /\ pipe' = Append(pipe, TwoPart(topic, data))
    /\ npublished' = npublished + 1
    /\ UNCHANGED <<pc, timer, portPub, portPull, event, hand, recvd, emitted, pushes, binds,
                   found>>
    /\ UNCHANGED otherThanPub

\* A Publisher with a step to take that no sleep and no empty queue holds up.
Busy(p) ==
    \/ pc[p] \in {"bind", "push", "bindpull", "loop", "emit", "check"}
    \/ pc[p] \in {"retry", "wait"} /\ timer[p] = 0
    \/ pc[p] = "recv" /\ portPull = p /\ pipe # <<>>

\* One second passes for every sleeping Publisher.
Sleep ==
    /\ \E p \in Publishers : timer[p] > 0
    /\ timer' = [p \in Publishers |-> IF timer[p] > 0 THEN timer[p] - 1 ELSE 0]
    /\ UNCHANGED <<pc, portPub, portPull, pipe, event, hand, recvd, emitted, pushes,
                   binds, found, npublished>>
    /\ UNCHANGED otherThanPub

\* The assumption behind the sleep() calls of run(): a second is long enough
\* for every bind, send, receive and test that is ready to be done.
TickWhenIdle ==
    /\ \A p \in Publishers : ~Busy(p)
    /\ Sleep

PubStep ==
    \/ \E p \in Publishers : Start(p)
    \/ \E p \in Publishers : Bind(p)
    \/ \E p \in Publishers : Push(p)
    \/ \E p \in Publishers : Retry(p)
    \/ \E p \in Publishers : BindPull(p)
    \/ \E p \in Publishers : Ready(p)
    \/ \E p \in Publishers : LoopTest(p)
    \/ \E p \in Publishers : Receive(p)
    \/ \E p \in Publishers : Emit(p)
    \/ \E p \in Publishers : Check(p)
    \/ \E call \in PublishCalls : Publish(call[1], call[2])

\* No assumption on how long a step takes: a second may pass at any point.
NextPub ==
    \/ PubStep
    \/ Sleep

NextPubTimed ==
    \/ PubStep
    \/ TickWhenIdle

(***************************************************************************)
(* PART 5.  The region of interest of the Basler camera.                   *)
(***************************************************************************)

\* The sensor of the modelled device: Width.Max and Height.Max with the
\* offsets at 0.
SensorWidth == 6

SensorHeight == 4

\* How many times the region of interest is written in one behaviour.
MaxRoiWrites == 2

\* None where a pair of bounds is expected.
NoRegion == <<>>

\* The rounding of the setter: int(v - v % 4) for X, int(v - v % 2) for Y.
RoundDown(v, step) == v - (v % step)

\* A device that takes every value.
SetRegister_unchecked(dev, node, v) ==
    [dev |-> [dev EXCEPT ![node] = v], ok |-> TRUE]

\* node.SetValue(v) of the device: the registers afterwards, or the
\* registers as they were and ok = FALSE when the device refuses the value
\* (Width in 1 .. sensor width - OffsetX, an offset in 0 .. sensor - size).
SetRegister(dev, node, v) ==
    LET ok == CASE node = "Width"   -> v >= 1 /\ v <= SensorWidth - dev.OffsetX
                [] node = "Height"  -> v >= 1 /\ v <= SensorHeight - dev.OffsetY
                [] node = "OffsetX" -> v >= 0 /\ v <= SensorWidth - dev.Width
                [] node = "OffsetY" -> v >= 0 /\ v <= SensorHeight - dev.Height
    IN  [dev |-> IF ok THEN [dev EXCEPT ![node] = v] ELSE dev, ok |-> ok]

\* The SetValue calls of a list, in order, up to the first the device refuses.
RECURSIVE SetRegisters(_, _)
SetRegisters(dev, calls) ==
    IF calls = <<>> THEN [dev |-> dev, ok |-> TRUE]
    ELSE LET r == SetRegister(dev, Head(calls)[1], Head(calls)[2])
         IN  IF r.ok THEN SetRegisters(r.dev, Tail(calls)) ELSE r

\* BaslerCamera.ccd_width / ccd_height, the getters: Width.Max and Height.Max
ccd_width(dev) == SensorWidth - dev.OffsetX

ccd_height(dev) == SensorHeight - dev.OffsetY

\* x = self.<p> inside the ROI setter: Feature.__get__ with the value gv the
\* getter of p returns; the store afterwards.
RoiRead(r, p, gv) == Feature_get(CamDescriptor(p), NoneVal, r.cfg, gv).cfg

\* BaslerCamera.ROI, the getter
ROI_get(r) ==
    LET offset_X == r.dev.OffsetX
        offset_Y == r.dev.OffsetY
        width == r.dev.Width - 1
        height == r.dev.Height - 1
    IN  <<<<offset_X, offset_X + width>>, <<offset_Y, offset_Y + height>>>>

\* BaslerCamera.ROI, the setter, called with vals = <<X, Y>>: the camera
\* afterwards and whether the setter returned (a SetValue the device
\* refuses raises, and leaves X, Y, width and height as they were).
ROI_set(r, vals) ==
    LET X == vals[1]
        Y == vals[2]
        width == RoundDown(X[2], 4)
        x_pos == RoundDown(X[1], 4)
        height == RoundDown(Y[2], 2)
        y_pos == RoundDown(Y[1], 2)
        d0 == SetRegisters(r.dev, << <<"OffsetX", 0>>, <<"OffsetY", 0>> >>)
        r1 == [r EXCEPT !.cfg = RoiRead(r, "ccd_width", ccd_width(d0.dev))]
        d1 == SetRegisters(d0.dev, << <<"Width", ccd_width(d0.dev)>> >>)
        r2 == [r1 EXCEPT !.cfg = RoiRead(r1, "ccd_height", ccd_height(d1.dev))]
        d2 == SetRegisters(d1.dev,
                  << <<"Height", ccd_height(d1.dev)>>,
                     <<"Width", width>>, <<"Height", height>>,
                     <<"OffsetX", x_pos>>, <<"OffsetY", y_pos>> >>)
    IN  IF ~d0.ok THEN [r |-> [r EXCEPT !.dev = d0.dev], ok |-> FALSE]
        ELSE IF ~d1.ok THEN [r |-> [r1 EXCEPT !.dev = d1.dev], ok |-> FALSE]
        ELSE IF ~d2.ok THEN [r |-> [r2 EXCEPT !.dev = d2.dev], ok |-> FALSE]
        ELSE [r  |-> [r2 EXCEPT !.dev = d2.dev,
                               !.X = <<x_pos, x_pos + width>>,
                               !.Y = <<y_pos, y_pos + height>>,
                               !.width = d2.dev.Width,
                               !.height = d2.dev.Height],
              ok |-> TRUE]

\* The regions a caller asks for: bounds inside the sensor, lower first.
Regions ==
    {<<X, Y>> \in ((0..SensorWidth - 1) \X (0..SensorWidth - 1))
                  \X ((0..SensorHeight - 1) \X (0..SensorHeight - 1)) :
        X[1] <= X[2] /\ Y[1] <= Y[2]}

\* The camera after initialize(): the whole sensor, no X or Y attribute on
\* the instance yet, nothing stored.
InitRoi ==
    /\ roi = [dev    |-> [OffsetX |-> 0, OffsetY |-> 0,
                          Width |-> SensorWidth, Height |-> SensorHeight],
              X      |-> NoRegion,
              Y      |-> NoRegion,
              width  |-> NoneVal,
              height |-> NoneVal,
              fvalue |-> NoRegion,
              cfg    |-> [k \in {"ROI", ""} |-> NoRegion]]
    /\ roilast = [op |-> "none", arg |-> NoRegion, raised |-> "no", ret |-> NoRegion,
                  nwrites |-> 0]

\* camera.ROI = vals : Feature.__set__ around the setter
WriteROI(vals) ==
    /\ roilast.nwrites < MaxRoiWrites
    /\ LET w == ROI_set(roi, vals)
           o == Feature_set(CamDescriptor("ROI"), w.r.fvalue, w.r.cfg, vals, NoneVal, w.ok)
       IN  /\ roi' = [w.r EXCEPT !.fvalue = o.value, !.cfg = o.cfg]
           /\ roilast' = [op |-> "write", arg |-> vals, raised |-> o.raised, ret |-> NoRegion,
                          nwrites |-> roilast.nwrites + 1]
    /\ UNCHANGED otherThanRoi

\* x = camera.ROI : Feature.__get__ around the getter
ReadROI ==
    /\ LET o == Feature_get(CamDescriptor("ROI"), roi.fvalue, roi.cfg, ROI_get(roi))
       IN  /\ roi' = [roi EXCEPT !.cfg = o.cfg]
           /\ roilast' = [op |-> "read", arg |-> NoRegion, raised |-> o.raised, ret |-> o.ret,
                          nwrites |-> roilast.nwrites]
    /\ UNCHANGED otherThanRoi

NextRoi ==
    \/ \E vals \in Regions : WriteROI(vals)
    \/ ReadROI

(***************************************************************************)
(* PART 6.  Exposure, gain and their automatic modes on the Basler camera. *)
(***************************************************************************)

\* The largest magnitude of an exposure and the largest gain that is written.
MaxSetting == 2

\* A pint quantity Q_(m, u).  A plain Python number n, which is not a Q_, is
\* written [m |-> n, u |-> "number"].
Q_(m, u) == [m |-> m, u |-> u]

Number(n) == [m |-> n, u |-> "number"]

\* isinstance(v, Q_)
IsQuantity(v) == v.u # "number"

\* Q_(n) of a plain number: a dimensionless quantity.
Q_of(v) == [m |-> v.m, u |-> "dimensionless"]

\* q.m_as('us'): the magnitude in microseconds; a quantity that is not a time
\* cannot be converted (pint raises DimensionalityError).
m_as_us(q) ==
    CASE q.u = "us" -> [ok |-> TRUE, m |-> q.m]
      [] q.u = "ms" -> [ok |-> TRUE, m |-> q.m * 1000]
      [] OTHER      -> [ok |-> FALSE, m |-> 0]

\* The values written to exposure: quantities of time and plain numbers.
WrittenExposures ==
    {Q_(m, u) : m \in 1..MaxSetting, u \in {"us", "ms"}}
        \cup {Number(n) : n \in 1..MaxSetting}

Gains == 0..MaxSetting

\* Python's True and False.
PyBool(b) == [type |-> "bool", b |-> b]

AutoModes == {"Off", "Once", "Continuous"}

\* The values written to auto_exposure and auto_gain: the booleans, the
\* three modes, a string that is no mode, and the int 1 (1 == True in Python,
\* but 1 is not True).
WrittenAutoModes ==
    {PyBool(b) : b \in BOOLEAN} \cup {PyStr(m) : m \in AutoModes \cup {"Twice"}}
        \cup {PyInt(1)}

AutoFeatures == {"auto_exposure", "auto_gain"}

CtlFeatures == {"exposure", "gain"} \cup AutoFeatures

\* An except clause that catches nothing.
Caught_nothing(exc) == FALSE

\* `except _genicam.TimeoutException:` of the exposure and the gain setter
Caught(exc) == exc = "TimeoutException"

\* The result of a setter: the camera afterwards, the exception that left it
\* ("no" if it returned) and whether the device timed out in it.
SetterResult(c, exc, timedout) ==
    [c |-> c, raised |-> IF exc = "no" \/ Caught(exc) THEN "no" ELSE exc,
     timedout |-> timedout]

\* BaslerCamera.exposure, the setter.  tmo tells where the device times out:
\* "set" in ExposureTime.SetValue, "reread" in ExposureTime.ToString, "none".
exposure_set(c, exposure, tmo) ==
    LET q == IF ~IsQuantity(exposure) THEN Q_of(exposure) ELSE exposure
        us == m_as_us(q)
        c1 == [c EXCEPT !.dev_exposure = us.m]
    IN  IF ~us.ok THEN SetterResult(c, "DimensionalityError", FALSE)
        ELSE IF tmo = "set" THEN SetterResult(c, "TimeoutException", TRUE)
        ELSE IF tmo = "reread" THEN SetterResult(c1, "TimeoutException", TRUE)
        ELSE SetterResult(
                 [c1 EXCEPT !.cfg = Upgrade(c1.cfg, "exposure", c1.dev_exposure, FALSE)],
                 "no", FALSE)

\* BaslerCamera.gain, the getter
gain_get(c, timeout) == IF ~timeout THEN c.dev_gain ELSE c.cfg["gain"]

\* BaslerCamera.gain, the setter
gain_set(c, gain, tmo) ==
    IF tmo = "set" THEN SetterResult(c, "TimeoutException", TRUE)
    ELSE SetterResult([c EXCEPT !.dev_gain = gain], "no", FALSE)

\* The first lines of the two setters had they compared with == : the ints 0
\* and 1 equal False and True.
AutoMode_equal(mode) ==
    IF mode.type = "bool" THEN PyStr(IF mode.b THEN "Once" ELSE "Off")
    ELSE IF mode.type = "int" /\ mode.n \in {0, 1}
    THEN PyStr(IF mode.n = 1 THEN "Once" ELSE "Off")
    ELSE mode

\* The first lines of the auto_exposure and the auto_gain setter: False
\* stands for 'Off', True for 'Once' (`is`, so for the two bool objects only).
AutoMode(mode) ==
    IF mode.type = "bool" /\ mode.b = FALSE THEN PyStr("Off")
    ELSE IF mode.type = "bool" /\ mode.b = TRUE THEN PyStr("Once")
    ELSE mode

\* `mode not in modes` for the tuple of the three strings
NotInModes(m) == m.type # "str" \/ m.v \notin AutoModes

\* BaslerCamera.auto_exposure, the getter and the setter
auto_exposure_get(c) == c.ExposureAuto

auto_exposure_set(c, mode) ==
    LET m == AutoMode(mode)
    IN  IF NotInModes(m) THEN SetterResult(c, "ValueError", FALSE)
        ELSE SetterResult([c EXCEPT !.ExposureAuto = m.v], "no", FALSE)

\* BaslerCamera.auto_gain, the getter and the setter
auto_gain_get(c) == c.GainAuto

auto_gain_set(c, mode) ==
    LET m == AutoMode(mode)
    IN  IF NotInModes(m) THEN SetterResult(c, "ValueError", FALSE)
        ELSE SetterResult([c EXCEPT !.GainAuto = m.v], "no", FALSE)

\* The camera after initialize(): the registers of the opened device, and the
\* store holding under each Feature's name the value fetch_all pulled.
InitCtl ==
    /\ ctl = [dev_exposure |-> 1,
              dev_gain     |-> 0,
              ExposureAuto |-> "Off",
              GainAuto     |-> "Off",
              fvalue       |-> [p \in AutoFeatures |-> NoneVal],
              cfg          |-> [k \in CtlFeatures \cup {""} |->
                                   CASE k = "exposure" -> 1
                                     [] k = "gain"     -> 0
                                     [] k \in AutoFeatures -> "Off"
                                     [] OTHER          -> NoneVal]]
    /\ ctllast = [op |-> "none", prop |-> "none", arg |-> NoneVal, timedout |-> FALSE,
                  raised |-> "no", ret |-> NoneVal, before |-> NoneVal, prior |-> NoneVal]

\* Feature.value of descriptor p.  No feature of this part is a setting, so
\* the value is written by __set__ and read by nothing; it is kept for the two
\* auto features, the other two descriptors' values being left out of the state.
DescriptorValue(c, p) == IF p \in AutoFeatures THEN c.fvalue[p] ELSE NoneVal

WithDescriptorValue(c, p, value) ==
    IF p \in AutoFeatures THEN [c.fvalue EXCEPT ![p] = value] ELSE c.fvalue

\* The device register behind an auto feature.
AutoRegister(c, p) == IF p = "auto_exposure" THEN c.ExposureAuto ELSE c.GainAuto

\* What a write of an auto feature can change, as it is before the write: the
\* register, the descriptor's value, and the store's entries under the
\* feature's name and under the name the descriptor writes to.  It is kept
\* for the writes whose setter raised.
Prior(c, p, raised) ==
    IF p \in AutoFeatures /\ raised # "no"
    THEN [register |-> AutoRegister(c, p), value |-> c.fvalue[p],
          entry |-> c.cfg[p], written |-> c.cfg[DescriptorName(p)]]
    ELSE NoneVal

\* camera.<p> = v : Feature.__set__ around the setter, whose result is r.
CtlWrite(p, v, r) ==
    LET o == Feature_set(CamDescriptor(p), DescriptorValue(ctl, p), r.c.cfg, v, NoneVal,
                         r.raised = "no")
    IN  /\ ctl' = [r.c EXCEPT !.cfg = o.cfg,
                              !.fvalue = WithDescriptorValue(ctl, p, o.value)]
        /\ ctllast' = [op |-> "write", prop |-> p, arg |-> v, timedout |-> r.timedout,
                       raised |-> r.raised, ret |-> NoneVal, before |-> ctl.cfg[p],
                       prior |-> Prior(ctl, p, r.raised)]

\* x = camera.<p> : Feature.__get__ around the getter, which returns gv.
CtlRead(p, gv, timedout) ==
    LET o == Feature_get(CamDescriptor(p), DescriptorValue(ctl, p), ctl.cfg, gv)
    IN  /\ ctl' = [ctl EXCEPT !.cfg = o.cfg,
                              !.fvalue = WithDescriptorValue(ctl, p, o.value)]
        /\ ctllast' = [op |-> "read", prop |-> p, arg |-> NoneVal, timedout |-> timedout,
                       raised |-> o.raised, ret |-> o.ret, before |-> ctl.cfg[p],
                       prior |-> NoneVal]

WriteExposure(v, tmo) ==
    /\ CtlWrite("exposure", v, exposure_set(ctl, v, tmo))
    /\ UNCHANGED otherThanCtl

\* The getter asks the device only when the store holds no exposure.
ReadExposure(timeout) ==
    /\ timeout => ctl.cfg["exposure"] = NoneVal
    /\ CtlRead("exposure", exposure_get(ctl, timeout), timeout)
    /\ UNCHANGED otherThanCtl

WriteGain(g, tmo) ==
    /\ CtlWrite("gain", g, gain_set(ctl, g, tmo))
    /\ UNCHANGED otherThanCtl

ReadGain(timeout) ==
    /\ CtlRead("gain", gain_get(ctl, timeout), timeout)
    /\ UNCHANGED otherThanCtl

WriteAutoExposure(mode) ==
    /\ CtlWrite("auto_exposure", mode, auto_exposure_set(ctl, mode))
    /\ UNCHANGED otherThanCtl

ReadAutoExposure ==
    /\ CtlRead("auto_exposure", auto_exposure_get(ctl), FALSE)
    /\ UNCHANGED otherThanCtl

WriteAutoGain(mode) ==
    /\ CtlWrite("auto_gain", mode, auto_gain_set(ctl, mode))
    /\ UNCHANGED otherThanCtl

ReadAutoGain ==
    /\ CtlRead("auto_gain", auto_gain_get(ctl), FALSE)
    /\ UNCHANGED otherThanCtl

NextCtl ==
    \/ \E v \in WrittenExposures : \E tmo \in {"none", "set", "reread"} : WriteExposure(v, tmo)
    \/ \E timeout \in BOOLEAN : ReadExposure(timeout)
    \/ \E g \in Gains : \E tmo \in {"none", "set"} : WriteGain(g, tmo)
    \/ \E timeout \in BOOLEAN : ReadGain(timeout)
    \/ \E mode \in WrittenAutoModes : WriteAutoExposure(mode)
    \/ ReadAutoExposure
    \/ \E mode \in WrittenAutoModes : WriteAutoGain(mode)
    \/ ReadAutoGain

(***************************************************************************)
(* PART 7.  make_async_thread.                                             *)
(***************************************************************************)

\* How many calls of decorated methods one behaviour makes.
MaxCalls == 3

\* The objects whose methods are decorated, the decorated methods and the
\* arguments they are called with after self.  No class of the repository
\* declares _threads in its body, so the attribute is the instance's own.
Objects == {"a", "b"}

Methods == {"continuous_reads", "monitor"}

CallArgs == {<<>>, <<1>>}

\* The attribute _threads of an object: absent, a list, or something else.
NoAttr == [kind |-> "absent", items |-> <<>>]

PyList(items) == [kind |-> "list", items |-> items]

NotAList == [kind |-> "other", items |-> <<>>]

\* hasattr(args[0], '_threads') that never finds the attribute.
hasattr_never(attr) == FALSE

\* hasattr(args[0], '_threads')
hasattr_threads(attr) == attr.kind # "absent"

\* Thread(target=func, args=args, kwargs=kwargs), and the Thread after start()
Thread(func, args) == [target |-> func, args |-> args, state |-> "initial"]

start(t) == [t EXCEPT !.state = "running"]

\* func_wrapper(*args, **kwargs) for the decorated method func, args[0]
\* having the attribute attr and threads being the Threads created so far:
\* the attribute and the Threads afterwards, and the exception raised.
func_wrapper(func, args, attr, threads) ==
    IF hasattr_threads(attr) /\ attr.kind # "list"
    THEN [attr |-> attr, threads |-> threads, raised |-> "ValueError"]
    ELSE LET ts == IF ~hasattr_threads(attr) THEN PyList(<<>>) ELSE attr
             t  == Len(threads) + 1
             appended == PyList(Append(ts.items, <<func, t>>))
             last_entry == appended.items[Len(appended.items)]
         IN  [attr    |-> appended,
              threads |-> [Append(threads, Thread(func, args))
                              EXCEPT ![last_entry[2]] = start(@)],
              raised  |-> "no"]

\* The objects as constructed, attrs giving the _threads of each.
InitThreads(attrs) ==
    /\ inst_threads = attrs
    /\ spawned = <<>>
    /\ thrcalls = <<>>
    /\ thrlast = [before |-> NoAttr, nbefore |-> 0, atreturn |-> "none"]

\* No object has the attribute before the first call.
InitThr == InitThreads([obj \in Objects |-> NoAttr])

\* Every object starts without _threads, with an empty list or with a value
\* that is not a list.
InitThrAny ==
    \E attrs \in [Objects -> {NoAttr, PyList(<<>>), NotAList}] : InitThreads(attrs)

\* obj.func(*a) from the one thread that uses the objects
Call(obj, func, a) ==
    /\ Len(thrcalls) < MaxCalls
    /\ LET r == func_wrapper(func, <<obj>> \o a, inst_threads[obj], spawned)
       IN  /\ inst_threads' = [inst_threads EXCEPT ![obj] = r.attr]
           /\ spawned' = r.threads
           /\ thrcalls' = Append(thrcalls, [obj |-> obj, func |-> func, args |-> a,
                                     raised |-> r.raised])
           /\ thrlast' = [before   |-> inst_threads[obj],
                          nbefore  |-> Len(spawned),
                          atreturn |-> IF r.raised = "no"
                                       THEN r.threads[Len(r.threads)].state
                                       ELSE "none"]
    /\ UNCHANGED otherThanThr

\* The target of a started Thread returns.
ThreadEnds(t) ==
    /\ t \in 1..Len(spawned)
    /\ spawned[t].state = "running"
    /\ spawned' = [spawned EXCEPT ![t].state = "finished"]
    /\ UNCHANGED <<inst_threads, thrcalls, thrlast>>
    /\ UNCHANGED otherThanThr

NextThr ==
    \/ \E obj \in Objects, func \in Methods, a \in CallArgs : Call(obj, func, a)
    \/ \E t \in 1..MaxCalls : ThreadEnds(t)

(***************************************************************************)
(* PART 8.  BaslerCamera.initialize().                                     *)
(***************************************************************************)

\* How many devices one enumeration returns at most.
MaxDevices == 3

\* The devices that may be connected, and device.GetFriendlyName() of each,
\* a string written as the sequence of its characters.
Devices == {"d1", "d2", "d3", "d4"}

GetFriendlyName(device) ==
    CASE device = "d1" -> <<"a", "c", "1">>
      [] device = "d2" -> <<"a", "c", "2">>
      [] device = "d3" -> <<"d", "a">>
      [] device = "d4" -> <<"x", "a", "c">>

\* self.camera, the identifier the camera was constructed with
camera == <<"a", "c">>

\* sub in str, for Python strings
StrIn(sub, str) ==
    \E i \in 0..(Len(str) - Len(sub)) : SubSeq(str, i + 1, i + Len(sub)) = sub

\* tl_factory.EnumerateDevices(): connected devices in some order, each once.
Enumerations ==
    {e \in UNION {[1..n -> Devices] : n \in 0..MaxDevices} :
        \A i, j \in 1..Len(e) : i # j => e[i] # e[j]}

\* self._driver before a device is attached.
NoDriver == "None"

\* `not self._driver`
NotDriver(c) == c.driver = NoDriver

\* The loop of initialize() over the devices from the i-th on: the camera
\* afterwards and the devices attached and opened, in order.
RECURSIVE MatchLoop(_, _, _, _)
MatchLoop(c, devices, i, opened) ==
    IF i > Len(devices) THEN [c |-> c, opened |-> opened]
    ELSE IF StrIn(camera, GetFriendlyName(devices[i]))
    THEN MatchLoop([c EXCEPT !.driver = devices[i],
                             !.friendly_name = GetFriendlyName(devices[i])],
                   devices, i + 1, Append(opened, devices[i]))
    ELSE MatchLoop(c, devices, i + 1, opened)

\* BaslerCamera.initialize() when devices enumerate: the camera afterwards,
\* the exception raised, the devices opened and the operations made on the
\* configuration.
initialize(c, devices) ==
    IF Len(devices) = 0
    THEN [c |-> c, raised |-> "CameraNotFound", opened |-> <<>>, config_ops |-> <<>>]
    ELSE LET m == MatchLoop(c, devices, 1, <<>>)
         IN  IF NotDriver(m.c)
             THEN [c |-> m.c, raised |-> "CameraNotFound", opened |-> m.opened,
                   config_ops |-> <<>>]
             ELSE [c |-> m.c, raised |-> "no", opened |-> m.opened,
                   config_ops |-> IF m.c.initial_config
                                  THEN <<"fetch_all", "update", "apply_all">>
                                  ELSE <<"fetch_all">>]

\* BaslerCamera.__init__; initial_config tells whether one was given.
InitCameraObject(initial_config) ==
    /\ ini = [driver |-> NoDriver, friendly_name |-> <<>>,
              initial_config |-> initial_config]
    /\ inilast = [op |-> "none", devices |-> <<>>, raised |-> "no", opened |-> <<>>,
                  config_ops |-> <<>>, before |-> NoDriver]

InitIni == InitCameraObject(FALSE)

InitIniAny == \E initial_config \in BOOLEAN : InitCameraObject(initial_config)

\* camera.initialize() while devices are what the factory enumerates
Initialize(devices) ==
    /\ LET r == initialize(ini, devices)
       IN  /\ ini' = r.c
           /\ inilast' = [op |-> "initialize", devices |-> devices, raised |-> r.raised,
                          opened |-> r.opened, config_ops |-> r.config_ops,
                          before |-> ini.driver]
    /\ UNCHANGED otherThanIni

NextIni == \E devices \in Enumerations : Initialize(devices)

(***************************************************************************)
(* PART 9.  BaslerCamera.continuous_reads() and finalize().                *)
(***************************************************************************)

\* Where the thread of continuous_reads stands: "none" before the call,
\* "begin" once started, then "test" (the while condition), "read", "emit"
\* (the for loop), "sleep"; "returned" when the loop has ended and "raised"
\* when an exception has left the method.
Running == {"begin", "test", "read", "emit", "sleep"}

Ended == {"returned", "raised"}

\* The calls of finalize(), in the order of its body.
FinalizeCalls == <<"stop_free_run", "stop_camera", "clean_up_threads", "super.finalize">>

\* self.keep_reading = False in __init__; no thread; finalize() not called.
\* imgs is what the last read_camera() of the loop returned, emitted what the
\* current iteration has emitted of it, slept the argument of the last
\* time.sleep; cleared tells that keep_reading was set to False while the
\* loop was running, reads the read_camera() calls begun since then; early
\* tells that keep_reading was set to False after the call and before the
\* first statement of the thread.
InitLoop ==
    /\ loop = [pc |-> "none", keep_reading |-> FALSE, imgs |-> <<>>, emitted |-> <<>>,
               slept |-> 0, cleared |-> FALSE, reads |-> 0, early |-> FALSE]
    /\ fin = [pc |-> 0, calls |-> <<>>]

\* camera.continuous_reads(): make_async_thread starts the thread.
ContinuousReads ==
    /\ loop.pc = "none"
    /\ fin.pc = 0
    /\ loop' = [loop EXCEPT !.pc = "begin"]
    /\ UNCHANGED <<fin, camVars>>
    /\ UNCHANGED otherThanLoop

\* self.keep_reading = True
ReadsBegin ==
    /\ loop.pc = "begin"
    /\ loop' = [loop EXCEPT !.pc = "test", !.keep_reading = TRUE]
    /\ UNCHANGED <<fin, camVars>>
    /\ UNCHANGED otherThanLoop

\* A loop condition that does not look at the flag.
KeepGoing_always(keep_reading) == TRUE

\* The condition of `while self.keep_reading:`
KeepGoing(keep_reading) == keep_reading

\* while self.keep_reading:
ReadsTest ==
    /\ loop.pc = "test"
    /\ loop' = [loop EXCEPT !.pc = IF KeepGoing(loop.keep_reading) THEN "read"
                                   ELSE "returned"]
    /\ UNCHANGED <<fin, camVars>>
    /\ UNCHANGED otherThanLoop

\* imgs = self.read_camera(); an exception ends the thread.
ReadsRead ==
    /\ loop.pc = "read"
    /\ \E oks \in GrabOutcomes(cam) :
         LET r == read_camera(cam, FALSE, oks)
         IN  /\ CamDoneWith("read_camera", r, oks)
             /\ loop' = [loop EXCEPT
                            !.pc = IF r.raised # "no" THEN "raised"
                                   ELSE IF Len(r.ret) >= 1 THEN "emit" ELSE "sleep",
                            !.imgs = r.ret,
                            !.emitted = <<>>,
                            !.reads = IF loop.cleared THEN Sat(@ + 1) ELSE 0]
    /\ UNCHANGED <<fin, freerun>>
    /\ UNCHANGED otherThanLoop

\* for img in imgs: self.new_image.emit(img) -- one turn of the for loop
ReadsEmit ==
    /\ loop.pc = "emit"
    /\ LET k == Len(loop.emitted) + 1
       IN  loop' = [loop EXCEPT !.emitted = Append(@, loop.imgs[k]),
                                !.pc = IF k = Len(loop.imgs) THEN "sleep" ELSE "emit"]
    /\ UNCHANGED <<fin, camVars>>
    /\ UNCHANGED otherThanLoop

\* time.sleep(self.exposure.m_as('s')), to its end
ReadsSleep ==
    /\ loop.pc = "sleep"
    /\ LET e == exposure_get(cam, FALSE)
       IN  /\ cam' = CamRead(cam, "exposure", e)
           /\ loop' = IF e = NoneVal THEN [loop EXCEPT !.pc = "raised"]
                      ELSE [loop EXCEPT !.pc = "test", !.slept = e]
    /\ UNCHANGED <<fin, camlast, freerun>>
    /\ UNCHANGED otherThanLoop

\* The steps of the thread.
ReadsStep ==
    \/ ReadsBegin
    \/ ReadsTest
    \/ ReadsRead
    \/ ReadsEmit
    \/ ReadsSleep

\* camera.keep_reading = False, from the code that uses the camera
ClearFlag ==
    /\ fin.pc = 0
    /\ loop.keep_reading
    /\ loop' = [loop EXCEPT !.keep_reading = FALSE,
                            !.cleared = loop.pc \in Running \ {"begin"},
                            !.reads = 0]
    /\ UNCHANGED <<fin, camVars>>
    /\ UNCHANGED otherThanLoop

\* camera.keep_reading = False, from the code that uses the camera, after
\* continuous_reads() has returned and before the thread it started has
\* executed its first statement.
ClearFlagEarly ==
    /\ fin.pc = 0
    /\ loop.pc = "begin"
    /\ ~loop.early
    /\ loop' = [loop EXCEPT !.keep_reading = FALSE, !.early = TRUE]
    /\ UNCHANGED <<fin, camVars>>
    /\ UNCHANGED otherThanLoop

\* trigger_camera(), from the code that uses the camera
ReadsTrigger ==
    /\ fin.pc = 0
    /\ CamDone("trigger_camera", trigger_camera(cam))
    /\ UNCHANGED <<loopVars, freerun>>
    /\ UNCHANGED otherThanLoop

\* The device finishes a frame.
ReadsDeviceFrame ==
    /\ DeviceFrame
    /\ UNCHANGED otherThanLoop

\* finalize(): self.stop_free_run()
FinalizeStopFreeRun ==
    /\ fin.pc = 0
    /\ CamDone("stop_free_run", stop_free_run(cam))
    /\ freerun' = [calls |-> 0, triggers |-> 0]
    /\ fin' = [pc |-> 1, calls |-> Append(fin.calls, FinalizeCalls[1])]
    /\ UNCHANGED loop
    /\ UNCHANGED otherThanLoop

\* finalize(): self.stop_camera()
FinalizeStopCamera ==
    /\ fin.pc = 1
    /\ CamDone("stop_camera", stop_camera(cam))
    /\ fin' = [pc |-> 2, calls |-> Append(fin.calls, FinalizeCalls[2])]
    /\ UNCHANGED <<loop, freerun>>
    /\ UNCHANGED otherThanLoop

\* finalize(): self.clean_up_threads(), which joins the threads the
\* decorator started: it returns once the thread has ended.
FinalizeCleanUp ==
    /\ fin.pc = 2
    /\ loop.pc \notin Running
    /\ fin' = [pc |-> 3, calls |-> Append(fin.calls, FinalizeCalls[3])]
    /\ UNCHANGED <<loop, camVars>>
    /\ UNCHANGED otherThanLoop

\* finalize(): super().finalize(), and the return
FinalizeBase ==
    /\ fin.pc = 3
    /\ fin' = [pc |-> 4, calls |-> Append(fin.calls, FinalizeCalls[4])]
    /\ UNCHANGED <<loop, camVars>>
    /\ UNCHANGED otherThanLoop

\* The steps of finalize().
FinalizeStep ==
    \/ FinalizeStopFreeRun
    \/ FinalizeStopCamera
    \/ FinalizeCleanUp
    \/ FinalizeBase

NextLoop ==
    \/ ContinuousReads
    \/ ReadsBegin
    \/ ReadsTest
    \/ ReadsRead
    \/ ReadsEmit
    \/ ReadsSleep
    \/ ClearFlag
    \/ ReadsTrigger
    \/ ReadsDeviceFrame
    \/ FinalizeStopFreeRun
    \/ FinalizeStopCamera
    \/ FinalizeCleanUp
    \/ FinalizeBase

\* The same steps, with the flag cleared at any moment after the call.
NextReads ==
    \/ NextLoop
    \/ ClearFlagEarly

(***************************************************************************)
(* PART 10.  Publisher.stop().                                             *)
(***************************************************************************)

\* The Publisher whose stop() is called.
Stopped == "p1"

\* The steps of stop(), in the order of its body.
StopCalls == <<"Listener", "publish", "finish", "set">>

\* A publish that sends the keyword as the topic as well.
Listener_publish_keywordTopic(data, topic) == TwoPart(data.v, data)

\* Listener.publish(data, topic=""): the two frames it sends
Listener_publish(data, topic) == TwoPart(topic, data)

\* stop() has not been called.
InitStop ==
    stopcall = [pc |-> 0, calls |-> <<>>, sent |-> <<>>,
                setat |-> [pc |-> "", was |-> FALSE, n |-> 0]]

\* with Listener() as listener: a PUSH socket is connected to the relay
\* port, and __init__ sleeps a second.
StopListener ==
    /\ stopcall.pc = 0
    /\ pc[Stopped] # "idle"
    /\ stopcall' = [stopcall EXCEPT !.pc = 1, !.calls = Append(@, StopCalls[1])]
    /\ UNCHANGED pubVars
    /\ UNCHANGED otherThanStop

\* listener.publish(settings.PUBLISHER_EXIT_KEYWORD)
StopPublish ==
    /\ stopcall.pc = 1
    /\ LET msg == Listener_publish(PyStr(PUBLISHER_EXIT_KEYWORD), "")
       IN  /\ pipe' = Append(pipe, msg)
           /\ stopcall' = [stopcall EXCEPT !.pc = 2, !.calls = Append(@, StopCalls[2]),
                                           !.sent = Append(@, msg)]
    /\ UNCHANGED <<pc, timer, portPub, portPull, event, hand, recvd, emitted, pushes, binds,
                   found, npublished>>
    /\ UNCHANGED otherThanStop

\* __exit__: self.finish(), which closes the socket; what it sent stays on
\* its way.
StopFinish ==
    /\ stopcall.pc = 2
    /\ stopcall' = [stopcall EXCEPT !.pc = 3, !.calls = Append(@, StopCalls[3])]
    /\ UNCHANGED pubVars
    /\ UNCHANGED otherThanStop

\* self._event.set(), and the return
StopSet ==
    /\ stopcall.pc = 3
    /\ event' = Event_set(event, EventOf(Stopped))
    /\ stopcall' = [stopcall EXCEPT !.pc = 4, !.calls = Append(@, StopCalls[4]),
                                    !.setat = [pc |-> pc[Stopped],
                                               was |-> event[EventOf(Stopped)],
                                               n |-> Len(emitted[Stopped])]]
    /\ UNCHANGED <<pc, timer, portPub, portPull, pipe, hand, recvd, emitted, pushes, binds,
                   found, npublished>>
    /\ UNCHANGED otherThanStop

\* The steps of stop().
StopStep ==
    \/ StopListener
    \/ StopPublish
    \/ StopFinish
    \/ StopSet

\* The steps of the Publisher's process.
ServeStep ==
    \/ Start(Stopped)
    \/ Bind(Stopped)
    \/ BindPull(Stopped)
    \/ Ready(Stopped)
    \/ LoopTest(Stopped)
    \/ Receive(Stopped)
    \/ Emit(Stopped)
    \/ Check(Stopped)

NextStop ==
    \/ Start(Stopped)
    \/ Bind(Stopped)
    \/ BindPull(Stopped)
    \/ Ready(Stopped)
    \/ LoopTest(Stopped)
    \/ Receive(Stopped)
    \/ Emit(Stopped)
    \/ Check(Stopped)
    \/ \E call \in PublishCalls : Publish(call[1], call[2])
    \/ Sleep
    \/ StopListener
    \/ StopPublish
    \/ StopFinish
    \/ StopSet

(***************************************************************************)
(* PART 11.  The driver of the Analog Discovery board.                     *)
(***************************************************************************)

\* The largest handle FDwfDeviceOpen hands out here; 0 is the invalid handle.
MaxHandle == 2

Handles == 0..MaxHandle

\* The device numbers initialize() is called with; -1 opens the last device.
DevNums == {-1, 0, 1}

\* What FDwfGetLastErrorMsg may write into the buffer.
ErrorTexts == {"", "Device not found"}

\* The largest value a register of the native library holds here.
MaxCode == 1

Codes == 0..MaxCode

\* The analog-input channels of the board.
Channels == {0, 1}

\* The number of driver calls followed.
MaxDriverCalls == 2

\* str() of a bytes object.
str_bytes(b) == "b'" \o b \o "'"

PyFloat(n) == [type |-> "float", n |-> n]

\* A test of the handle that never fails.
DeviceOpenFailed_never(hdwf) == FALSE

\* self.hdwf.value == 0
DeviceOpenFailed(hdwf) == hdwf = 0

\* One get or set method of the driver: the parameter and the direction its
\* name states, the parameter and the direction of the native call in its
\* body, the type it takes or returns, whether it takes a channel, and the
\* value it passes when that value is fixed by the method.
Wired(method, param, dir, nparam, ndir, type, channel, fixed) ==
    [method |-> method, param |-> param, dir |-> dir, nparam |-> nparam,
     ndir |-> ndir, type |-> type, channel |-> channel, fixed |-> fixed]

\* A method whose body calls the native function its name states.
Plain(method, param, dir, type, channel) ==
    Wired(method, param, dir, param, dir, type, channel, NoneVal)

\* The get and set methods of AnalogDiscovery, in the order of the class.
Bindings ==
    { Wired("analog_in_record_length_set", "RecordLength", "Set",
            "RecordLength", "Get", "float", FALSE, NoneVal),
      Wired("analog_in_record_length_get", "RecordLength", "Get",
            "RecordLength", "Set", "float", FALSE, NoneVal),
      Plain("analog_in_frequency_set", "Frequency", "Set", "float", FALSE),
      Plain("analog_in_frequency_get", "Frequency", "Get", "float", FALSE),
      Plain("analog_in_buffer_size_set", "BufferSize", "Set", "int", FALSE),
      Plain("analog_in_buffer_size_get", "BufferSize", "Get", "int", FALSE),
      Plain("analogin_noise_size_get", "NoiseSize", "Get", "int", FALSE),
      Plain("analong_in_acquisition_mode_set", "AcquisitionMode", "Set",
            "AcquisitionMode", FALSE),
      Plain("analog_in_acquisition_mode_get", "AcquisitionMode", "Get",
            "AcquisitionMode", FALSE),
      Plain("analog_in_sampling_source_set", "SamplingSource", "Set",
            "TriggerSource", FALSE),
      Plain("analog_in_sampling_source_get", "SamplingSource", "Get",
            "TriggerSource", FALSE),
      Plain("analog_in_sampling_slope_set", "SamplingSlope", "Set",
            "TriggerSlope", FALSE),
      Plain("analog_in_sampling_slope_get", "SamplingSlope", "Get",
            "TriggerSlope", FALSE),
      Plain("analog_in_sampling_delay_set", "SamplingDelay", "Set", "float", FALSE),
      Plain("analog_in_sampling_delay_get", "SamplingDelay", "Get", "float", FALSE),
      Wired("analog_in_channel_enable", "ChannelEnable", "Set",
            "ChannelEnable", "Set", "bool", TRUE, 1),
      Wired("analog_in_channel_disable", "ChannelEnable", "Set",
            "ChannelEnable", "Set", "bool", TRUE, 0),
      Plain("analog_in_channel_enable_get", "ChannelEnable", "Get", "int", TRUE),
      Plain("analog_in_channel_filter_set", "ChannelFilter", "Set",
            "AnalogAcquisitionFilter", TRUE),
      Plain("analog_in_channel_filter_get", "ChannelFilter", "Get",
            "AnalogAcquisitionFilter", TRUE),
      Plain("analog_in_channel_range_set", "ChannelRange", "Set", "float", TRUE),
      Plain("analog_in_channel_range_get", "ChannelRange", "Get", "float", TRUE),
      Plain("analog_in_channel_offset_set", "ChannelOffset", "Set", "float", TRUE),
      Plain("analog_in_channel_offset_get", "ChannelOffset", "Get", "float", TRUE),
      Plain("analog_in_channel_attenuation_set", "ChannelAttenuation", "Set",
            "float", TRUE),
      Plain("analog_in_channel_attenuation_get", "ChannelAttenuation", "Get",
            "float", TRUE),
      Plain("analog_in_trigger_source_set", "TriggerSource", "Set",
            "TriggerSource", FALSE),
      Plain("analog_in_trigger_source_get", "TriggerSource", "Get",
            "TriggerSource", FALSE),
      Plain("analog_in_trigger_position_set", "TriggerPosition", "Set",
            "float", FALSE),
      Plain("analog_in_trigger_position_get", "TriggerPosition", "Get",
            "float", FALSE),
      Plain("analog_in_trigger_auto_timeout_set", "TriggerAutoTimeout", "Set",
            "float", FALSE),
      Plain("analog_in_trigger_auto_timeout_get", "TriggerAutoTimeout", "Get",
            "float", FALSE),
      Plain("analog_in_trigger_holdoff_set", "TriggerHoldOff", "Set", "float", FALSE),
      Plain("analog_in_trigger_holdoff_get", "TriggerHoldOff", "Get", "float", FALSE),
      Plain("analog_in_trigger_type_set", "TriggerType", "Set",
            "AnalogInTriggerMode", FALSE),
      Plain("analog_in_trigger_type_get", "TriggerType", "Get",
            "AnalogInTriggerMode", FALSE),
      Plain("analog_in_trigger_channel_set", "TriggerChannel", "Set", "int", FALSE),
      Plain("analog_in_trigger_filter_set", "TriggerFilter", "Set",
            "AnalogAcquisitionFilter", FALSE),
      Plain("analog_in_trigger_filter_get", "TriggerFilter", "Get",
            "AnalogAcquisitionFilter", FALSE),
      Plain("analog_in_trigger_channel_get", "TriggerChannel", "Get", "int", FALSE),
      Plain("analog_in_trigger_condition_set", "TriggerCondition", "Set",
            "TriggerSlope", FALSE),
      Wired("analog_in_trigger_condition_get", "TriggerCondition", "Get",
            "TriggerCondition", "Set", "TriggerSlope", FALSE, NoneVal),
      Plain("analog_in_trigger_level_set", "TriggerLevel", "Set", "float", FALSE),
      Plain("analog_in_trigger_level_get", "TriggerLevel", "Get", "float", FALSE),
      Plain("analog_in_trigger_hysteresis_set", "TriggerHysteresis", "Set",
            "float", FALSE),
      Plain("analog_in_trigger_hysteresis_get", "TriggerHysteresis", "Get",
            "float", FALSE),
      Plain("analog_in_trigger_length_condition_set", "TriggerLengthCondition",
            "Set", "TriggerLength", FALSE),
      Wired("analog_in_trigger_length_condition_hysteresis_get",
            "TriggerLengthConditionHysteresis", "Get",
            "TriggerHysteresis", "Get", "TriggerLength", FALSE, NoneVal),
      Plain("analog_in_trigger_length_set", "TriggerLength", "Set", "float", FALSE),
      Wired("analog_in_trigger_length_condition_get", "TriggerLengthCondition",
            "Get", "TriggerHysteresis", "Get", "float", FALSE, NoneVal) }

DriverMethods == {b.method : b \in Bindings}

\* The methods by their name.
ByName == [method \in DriverMethods |-> CHOOSE b \in Bindings : b.method = method]

Binding(method) == ByName[method]

\* The parameters the methods are named after and those the native calls hold.
Params == {b.param : b \in Bindings} \cup {b.nparam : b \in Bindings}

\* The native call the method's name states, whatever its body calls.
Native_namesake(b) == [param |-> b.param, dir |-> b.dir]

\* The native call in the body of the method.
Native(b) == [param |-> b.nparam, dir |-> b.ndir]

\* The name of a native function of the analog-input instrument.
FDwfAnalogIn(native) == "FDwfAnalogIn" \o native.param \o native.dir

\* The channels a method can be called with; one without a channel argument
\* acts on the instrument's single register.
ChannelsOf(b) == IF b.channel THEN Channels ELSE {0}

\* The values a set method can be called with.
ArgsOf(b) == IF b.fixed # NoneVal THEN {b.fixed} ELSE Codes

\* The Python value a method takes or returns for a native value: value of
\* a c_int or c_double, or the member of an enumeration with that code.
FromNative(type, n) == [type |-> type, n |-> n]

InitAd ==
    /\ ad = [hdwf |-> 0,
             reg |-> [p \in Params |-> [ch \in Channels |-> 0]],
             set |-> [p \in Params |-> [ch \in Channels |-> NoneVal]],
             calls |-> 0]
    /\ adlast = [op |-> "", channel |-> 0, native |-> <<>>, handle |-> 0,
                 raised |-> "no", msg |-> "", szerr |-> "",
                 result |-> PyNone, crashed |-> FALSE]

AdDone(op, channel, native, result) ==
    adlast' = [op |-> op, channel |-> channel, native |-> native,
               handle |-> ad.hdwf, raised |-> "no", msg |-> "", szerr |-> "",
               result |-> result, crashed |-> FALSE]

\* initialize(dev_num): FDwfDeviceOpen leaves a handle in self.hdwf; when it
\* is zero the last error message is fetched and raised.
AdInitialize(dev_num) ==
    /\ ad.calls < MaxDriverCalls
    /\ \E handle \in Handles, text \in ErrorTexts :
         /\ ad' = [ad EXCEPT !.hdwf = handle, !.calls = @ + 1]
         /\ IF DeviceOpenFailed(handle)
            THEN adlast' = [op |-> "initialize", channel |-> 0,
                            native |-> <<"FDwfDeviceOpen", "FDwfGetLastErrorMsg">>,
                            handle |-> handle, raised |-> "DriverException",
                            msg |-> str_bytes(text), szerr |-> text,
                            result |-> PyNone, crashed |-> FALSE]
            ELSE adlast' = [op |-> "initialize", channel |-> 0,
                            native |-> <<"FDwfDeviceOpen">>,
                            handle |-> handle, raised |-> "no",
                            msg |-> "", szerr |-> "",
                            result |-> PyNone, crashed |-> FALSE]
    /\ UNCHANGED otherThanAd

\* A set method.  Its native Set call writes the register.  A native Get
\* call is given the value where it expects the address to write to: the
\* register stays, and the write through that address may end the process.
AdSet(method, channel, value) ==
    /\ ad.calls < MaxDriverCalls
    /\ LET b == Binding(method)
           native == Native(b)
       IN /\ IF native.dir = "Set"
             THEN /\ ad' = [ad EXCEPT !.reg[native.param][channel] = value,
                                      !.set[b.param][channel] = value,
                                      !.calls = @ + 1]
                  /\ AdDone(method, channel, <<FDwfAnalogIn(native)>>, PyNone)
             ELSE /\ ad' = [ad EXCEPT !.set[b.param][channel] = value,
                                      !.calls = @ + 1]
                  /\ \E crashed \in BOOLEAN :
                       adlast' = [op |-> method, channel |-> channel,
                                  native |-> <<FDwfAnalogIn(native)>>,
                                  handle |-> ad.hdwf, raised |-> "no",
                                  msg |-> "", szerr |-> "",
                                  result |-> PyNone, crashed |-> crashed]
    /\ UNCHANGED otherThanAd

\* A get method.  Its native Get call fills the fresh c_int or c_double with
\* the register.  A native Set call is given the address of that object
\* where it expects the value: the register takes whatever that is read as,
\* and the object keeps its initial zero.
AdGet(method, channel) ==
    /\ ad.calls < MaxDriverCalls
    /\ LET b == Binding(method)
           native == Native(b)
       IN /\ IF native.dir = "Get"
             THEN /\ ad' = [ad EXCEPT !.calls = @ + 1]
                  /\ AdDone(method, channel, <<FDwfAnalogIn(native)>>,
                            FromNative(b.type, ad.reg[native.param][channel]))
             ELSE /\ \E garbage \in Codes :
                       ad' = [ad EXCEPT !.reg[native.param][channel] = garbage,
                                        !.calls = @ + 1]
                  /\ AdDone(method, channel, <<FDwfAnalogIn(native)>>,
                            FromNative(b.type, 0))
    /\ UNCHANGED otherThanAd

\* The methods named set, enable or disable, and those named get.
Setters == {b \in Bindings : b.dir = "Set"}

Getters == {b \in Bindings : b.dir = "Get"}

\* The native call a method is named after.
OwnCall(b) == [param |-> b.param, dir |-> b.dir]

\* The methods whose body calls another native function than their own.
Miswired ==
    {"analog_in_record_length_set", "analog_in_record_length_get",
     "analog_in_trigger_condition_get",
     "analog_in_trigger_length_condition_get",
     "analog_in_trigger_length_condition_hysteresis_get"}

NextAd ==
    \/ \E dev_num \in DevNums : AdInitialize(dev_num)
    \/ \E b \in Setters : \E channel \in ChannelsOf(b), value \in ArgsOf(b) :
         AdSet(b.method, channel, value)
    \/ \E b \in Getters : \E channel \in ChannelsOf(b) :
         AdGet(b.method, channel)

(***************************************************************************)
(* PART 12.  The Experiment of examples/track/app.py.                      *)
(***************************************************************************)

\* The model classes and the measurement classes an application registers.
ModelClasses == {"MyCamera", "MyDAQ"}

MeasurementClasses == {"Track", "Scan"}

\* The largest number of classes given to one registration.
MaxClasses == 2

\* The largest number of registrations followed.
MaxRegistrations == 3

\* The argument lists of one registration: the classes, in the order given.
ClassLists(classes) ==
    UNION {[1..n -> classes] : n \in 0..MaxClasses}

\* The n-th object constructed by the application, an instance of cls.
Instance(cls, n) == [cls |-> cls, n |-> n]

\* The instances of the classes, constructed from the first to the last.
RECURSIVE Instantiated(_, _)
Instantiated(classes, made) ==
    IF classes = <<>> THEN <<>>
    ELSE <<Instance(Head(classes), made + 1)>>
         \o Instantiated(Tail(classes), made + 1)

\* register_models(*model_classes)
register_models(e, classes) ==
    [e EXCEPT !.models = @ \o classes]

\* A registration that puts the newest instances first.
register_measurements_first(e, classes) ==
    [e EXCEPT !.measurements = Instantiated(classes, e.made) \o @,
              !.made = @ + Len(classes)]

\* register_measurements(*measurement_classes)
register_measurements(e, classes) ==
    [e EXCEPT !.measurements = @ \o Instantiated(classes, e.made),
              !.made = @ + Len(classes)]

InitApp ==
    /\ app = [models |-> <<>>, measurements |-> <<>>, made |-> 0, calls |-> 0]
    /\ applast = [op |-> "", classes |-> <<>>,
                  before |-> [models |-> <<>>, measurements |-> <<>>, made |-> 0],
                  raised |-> "no", ran |-> <<>>]

Before(e) == [models |-> e.models, measurements |-> e.measurements, made |-> e.made]

\* app.register_models(MyCamera, MyDAQ), with any classes.
RegisterModels(classes) ==
    /\ app.calls < MaxRegistrations
    /\ app' = [register_models(app, classes) EXCEPT !.calls = @ + 1]
    /\ applast' = [op |-> "register_models", classes |-> classes,
                   before |-> Before(app), raised |-> "no", ran |-> <<>>]
    /\ UNCHANGED otherThanApp

\* app.register_measurements(Track), with any classes.
RegisterMeasurements(classes) ==
    /\ app.calls < MaxRegistrations
    /\ app' = [register_measurements(app, classes) EXCEPT !.calls = @ + 1]
    /\ applast' = [op |-> "register_measurements", classes |-> classes,
                   before |-> Before(app), raised |-> "no", ran |-> <<>>]
    /\ UNCHANGED otherThanApp

\* app._measurements[0].timelapse()
Timelapse ==
    /\ applast.op # "timelapse"
    /\ app' = app
    /\ IF app.measurements = <<>>
       THEN applast' = [op |-> "timelapse", classes |-> <<>>,
                        before |-> Before(app), raised |-> "IndexError",
                        ran |-> <<>>]
       ELSE applast' = [op |-> "timelapse", classes |-> <<>>,
                        before |-> Before(app), raised |-> "no",
                        ran |-> <<app.measurements[1]>>]
    /\ UNCHANGED otherThanApp

NextApp ==
    \/ \E classes \in ClassLists(ModelClasses) : RegisterModels(classes)
    \/ \E classes \in ClassLists(MeasurementClasses) : RegisterMeasurements(classes)
    \/ Timelapse

(***************************************************************************)
(* PART 13.  The ROI setter, one SetValue call at a time.                  *)
(***************************************************************************)

\* The SetValue calls in the body of the ROI setter.
SetterCalls == 8

\* The requests followed call by call: those of Regions whose X bounds are
\* at the two ends of a rounding interval of the setter (a multiple of 4, or
\* one below the next); for Y that is every bound.
EdgeRegions ==
    {vals \in Regions : vals[1][1] % 4 \in {0, 3} /\ vals[1][2] % 4 \in {0, 3}}

\* The k-th SetValue call of the ROI setter called with vals, on a device
\* whose registers are dev when the call is made.
SetterCall(k, vals, dev) ==
    LET X == vals[1]
        Y == vals[2]
        width == RoundDown(X[2], 4)
        x_pos == RoundDown(X[1], 4)
        height == RoundDown(Y[2], 2)
        y_pos == RoundDown(Y[1], 2)
    IN  CASE k = 1 -> <<"OffsetX", 0>>
          [] k = 2 -> <<"OffsetY", 0>>
          [] k = 3 -> <<"Width", ccd_width(dev)>>
          [] k = 4 -> <<"Height", ccd_height(dev)>>
          [] k = 5 -> <<"Width", width>>
          [] k = 6 -> <<"Height", height>>
          [] k = 7 -> <<"OffsetX", x_pos>>
          [] k = 8 -> <<"OffsetY", y_pos>>

\* No write of the ROI is under way.
InitRoiSet ==
    roiset = [pc |-> 0, vals |-> <<<<0, 0>>, <<0, 0>>>>, raised |-> "no"]

\* camera.ROI = vals : Feature.__set__ calls the setter.
RoiSetBegin(vals) ==
    /\ roiset.pc = 0
    /\ roiset' = [pc |-> 1, vals |-> vals, raised |-> "no"]
    /\ UNCHANGED roiVars
    /\ UNCHANGED otherThanRoiSet

\* The next SetValue call of the setter; self.ccd_width and self.ccd_height
\* are read through their Features.  A value the device refuses raises and
\* ends the setter.
RoiSetCall ==
    /\ roiset.pc \in 1..SetterCalls
    /\ LET call == SetterCall(roiset.pc, roiset.vals, roi.dev)
           r == SetRegister(roi.dev, call[1], call[2])
           cfg == CASE roiset.pc = 3 -> RoiRead(roi, "ccd_width", call[2])
                    [] roiset.pc = 4 -> RoiRead(roi, "ccd_height", call[2])
                    [] OTHER -> roi.cfg
       IN  /\ roi' = [roi EXCEPT !.dev = r.dev, !.cfg = cfg]
           /\ roiset' = IF r.ok THEN [roiset EXCEPT !.pc = @ + 1]
                        ELSE [roiset EXCEPT !.pc = 0, !.raised = "device"]
    /\ UNCHANGED roilast
    /\ UNCHANGED otherThanRoiSet

\* The end of the setter: self.X, self.Y, self.width, self.height, and the
\* rest of Feature.__set__.
RoiSetEnd ==
    /\ roiset.pc = SetterCalls + 1
    /\ LET vals == roiset.vals
           width == RoundDown(vals[1][2], 4)
           x_pos == RoundDown(vals[1][1], 4)
           height == RoundDown(vals[2][2], 2)
           y_pos == RoundDown(vals[2][1], 2)
           o == Feature_set(CamDescriptor("ROI"), roi.fvalue, roi.cfg, vals, NoneVal, TRUE)
       IN  roi' = [roi EXCEPT !.X = <<x_pos, x_pos + width>>,
                              !.Y = <<y_pos, y_pos + height>>,
                              !.width = roi.dev.Width,
                              !.height = roi.dev.Height,
                              !.fvalue = o.value,
                              !.cfg = o.cfg]
    /\ roiset' = [roiset EXCEPT !.pc = 0]
    /\ UNCHANGED roilast
    /\ UNCHANGED otherThanRoiSet

NextRoiSet ==
    \/ \E vals \in EdgeRegions : RoiSetBegin(vals)
    \/ RoiSetCall
    \/ RoiSetEnd

(***************************************************************************)
(* PART 14.  Model._collect_properties().                                  *)
(***************************************************************************)

\* The number of attribute names a model class and its ancestors bind.
MaxAttrs == 4

\* The attribute names, in the order in which dir() lists them.
AttrOrder == <<"a", "b", "c", "d", "e">>

AttrNames == {AttrOrder[i] : i \in 1..MaxAttrs}

\* What a name is bound to: nothing, a ModelProp declared by the class of
\* the instance, a ModelProp declared by an ancestor, or a method.
Bindable == {"absent", "ModelProp", "inherited ModelProp", "method"}

\* The names bound to a ModelProp by the class or by one of its ancestors.
ModelPropNames(attrs) ==
    {n \in AttrNames : attrs[n] \in {"ModelProp", "inherited ModelProp"}}

\* dir(self): a list of the names of the attributes, each a str.
dir(attrs) ==
    LET bound(n) == n \in AttrNames /\ attrs[n] # "absent"
    IN  [i \in 1..Len(SelectSeq(AttrOrder, bound)) |->
             PyStr(SelectSeq(AttrOrder, bound)[i])]

\* isinstance(item, ModelProp)
isinstance_ModelProp(item) == item.type = "ModelProp"

\* The body of _collect_properties over the items left, with _properties the
\* class attribute [] : a list does not take a str as its index.
RECURSIVE collect(_, _, _)
collect(items, attrs, properties) ==
    IF items = <<>> THEN [properties |-> properties, raised |-> "no"]
    ELSE IF isinstance_ModelProp(Head(items))
    THEN [properties |-> properties, raised |-> "TypeError"]
    ELSE collect(Tail(items), attrs, properties)

\* Any class: each name bound to something or to nothing.
InitColl(attrs) ==
    /\ mdl = [attrs |-> attrs, properties |-> <<>>]
    /\ mdllast = [op |-> "", raised |-> "no", seen |-> <<>>]

InitCollFixed ==
    InitColl([n \in AttrNames |-> IF n = "a" THEN "ModelProp" ELSE "absent"])

InitCollAny == \E attrs \in [AttrNames -> Bindable] : InitColl(attrs)

\* model._collect_properties()
CollectProperties ==
    /\ mdllast.op = ""
    /\ LET r == collect(dir(mdl.attrs), mdl.attrs, mdl.properties)
       IN  /\ mdl' = [mdl EXCEPT !.properties = r.properties]
           /\ mdllast' = [op |-> "_collect_properties", raised |-> r.raised,
                          seen |-> dir(mdl.attrs)]
    /\ UNCHANGED otherThanColl

NextColl == CollectProperties









(***************************************************************************)
(* PART 15.  make_async_thread called by two threads on one object.        *)
(***************************************************************************)

\* The threads that call decorated methods of the object.
Callers == {"t1", "t2"}

\* obj._threads when the object has no such attribute.
Absent == 0

\* The object before the calls: without _threads (has = FALSE), or with an
\* empty list left by the constructor.
InitRaceWith(has) ==
    /\ shared = [attr |-> IF has THEN 1 ELSE Absent,
               lists |-> IF has THEN <<<<>>>> ELSE <<>>,
               threads |-> <<>>]
    /\ caller = [c \in Callers |->
                    [pc |-> "idle", func |-> "", ref |-> Absent, raised |-> "no"]]

InitRace == InitRaceWith(FALSE)

InitRaceAny == \E has \in BOOLEAN : InitRaceWith(has)

\* obj.func() in thread c: func_wrapper begins.
RaceCall(c, func) ==
    /\ caller[c].pc = "idle"
    /\ caller' = [caller EXCEPT ![c].pc = "test", ![c].func = func]
    /\ UNCHANGED shared
    /\ UNCHANGED otherThanRace

\* if not hasattr(args[0], '_threads'):
RaceTest(c) ==
    /\ caller[c].pc = "test"
    /\ caller' = [caller EXCEPT ![c].pc = IF shared.attr = Absent THEN "create"
                                          ELSE "load"]
    /\ UNCHANGED shared
    /\ UNCHANGED otherThanRace

\* args[0]._threads = []
RaceCreate(c) ==
    /\ caller[c].pc = "create"
    /\ shared' = [shared EXCEPT !.lists = Append(@, <<>>), !.attr = Len(shared.lists) + 1]
    /\ caller' = [caller EXCEPT ![c].pc = "load"]
    /\ UNCHANGED otherThanRace

\* args[0]._threads.append : the list is looked up ...
RaceLoad(c) ==
    /\ caller[c].pc = "load"
    /\ caller' = [caller EXCEPT ![c].pc = "append", ![c].ref = shared.attr]
    /\ UNCHANGED shared
    /\ UNCHANGED otherThanRace

\* ... the Thread is created and [func.__name__, Thread] is appended to it.
RaceAppend(c) ==
    /\ caller[c].pc = "append"
    /\ LET t == Len(shared.threads) + 1
       IN  shared' = [shared EXCEPT
                       !.threads = Append(@, [target |-> caller[c].func, by |-> c,
                                              starts |-> 0]),
                       !.lists[caller[c].ref] = Append(@, <<caller[c].func, t>>)]
    /\ caller' = [caller EXCEPT ![c].pc = "start"]
    /\ UNCHANGED otherThanRace

\* args[0]._threads[-1][1].start() : the last entry of the list the object
\* has now.  An empty list has no last entry (IndexError), and a Thread
\* that was started cannot be started again (RuntimeError).
RaceStart(c) ==
    /\ caller[c].pc = "start"
    /\ LET items == shared.lists[shared.attr]
           t == items[Len(items)][2]
       IN  IF items = <<>>
           THEN /\ caller' = [caller EXCEPT ![c].pc = "raised",
                                            ![c].raised = "IndexError"]
                /\ UNCHANGED shared
           ELSE IF shared.threads[t].starts > 0
           THEN /\ caller' = [caller EXCEPT ![c].pc = "raised",
                                            ![c].raised = "RuntimeError"]
                /\ UNCHANGED shared
           ELSE /\ caller' = [caller EXCEPT ![c].pc = "returned"]
                /\ shared' = [shared EXCEPT !.threads[t].starts = 1]
    /\ UNCHANGED otherThanRace

NextRace ==
    \/ \E c \in Callers, func \in Methods : RaceCall(c, func)
    \/ \E c \in Callers : RaceTest(c)
    \/ \E c \in Callers : RaceCreate(c)
    \/ \E c \in Callers : RaceLoad(c)
    \/ \E c \in Callers : RaceAppend(c)
    \/ \E c \in Callers : RaceStart(c)

\* The initial state of the parts added last.
InitMore ==
    /\ InitLoop
    /\ InitStop
    /\ InitAd
    /\ InitApp
    /\ InitRoiSet
    /\ InitCollFixed
    /\ InitRace

\* The initial state of the parts that follow the relay.
InitLater ==
    /\ InitRoi
    /\ InitCtl
    /\ InitThr
    /\ InitIni
    /\ InitMore

Init ==
    /\ InitReg
    /\ InitFeat
    /\ InitCam
    /\ InitPub
    /\ InitLater

SpecRegistry == Init /\ [][NextReg]_vars

SpecFeature == Init /\ [][NextFeat]_vars

SpecCached == Init /\ [][NextCached]_vars

SpecCam == Init /\ [][NextCam]_vars

InitAnyMode ==
    /\ InitReg
    /\ InitFeat
    /\ InitCamAnyMode
    /\ InitPub
    /\ InitLater

SpecCamAnyMode == InitAnyMode /\ [][NextCam]_vars

SpecPub == Init /\ [][NextPub]_vars

SpecRoi == Init /\ [][NextRoi]_vars

SpecCtl == Init /\ [][NextCtl]_vars

\* The calls of decorated methods by one thread, from every initial _threads.
InitAnyThreads ==
    /\ InitReg
    /\ InitFeat
    /\ InitCam
    /\ InitPub
    /\ InitRoi
    /\ InitCtl
    /\ InitThrAny
    /\ InitIni
    /\ InitMore

SpecThr == InitAnyThreads /\ [][NextThr]_vars

\* initialize(), any number of times, with or without an initial_config.
InitAnyConfig ==
    /\ InitReg
    /\ InitFeat
    /\ InitCam
    /\ InitPub
    /\ InitRoi
    /\ InitCtl
    /\ InitThr
    /\ InitIniAny
    /\ InitMore

SpecIni == InitAnyConfig /\ [][NextIni]_vars

SpecPubTimed == Init /\ [][NextPubTimed]_vars

\* The Publisher's process is scheduled, time passes, and stop(), once
\* called, runs to its end.
SpecStop ==
    /\ Init
    /\ [][NextStop]_vars
    /\ WF_pubVars(ServeStep)
    /\ WF_pubVars(Sleep)
    /\ WF_stopcall(StopStep /\ stopcall.pc # 0)

\* The thread of continuous_reads is scheduled and each of its steps ends
\* (RetrieveResult has a timeout, the sleep is finite); finalize(), once
\* called, goes on with its next call whenever that call can return.
SpecLoop ==
    /\ InitAnyMode
    /\ [][NextLoop]_vars
    /\ WF_loop(ReadsStep)
    /\ WF_fin(FinalizeStep /\ fin.pc # 0)

\* The same scheduling, the flag being cleared at any moment after the call
\* of continuous_reads(), the thread's first statement included.
SpecReads ==
    /\ InitAnyMode
    /\ [][NextReads]_vars
    /\ WF_loop(ReadsStep)
    /\ WF_fin(FinalizeStep /\ fin.pc # 0)

\* Calls of the driver of the Analog Discovery board, one after another.
SpecAd == Init /\ [][NextAd]_vars

\* Registrations with the Experiment, and the call of the first measurement.
SpecApp == Init /\ [][NextApp]_vars

\* Writes of the ROI, one after another, each seen call by call.
SpecRoiSet == Init /\ [][NextRoiSet]_vars

\* _collect_properties() on an instance of any model class.
InitAnyClass ==
    /\ InitReg
    /\ InitFeat
    /\ InitCam
    /\ InitPub
    /\ InitRoi
    /\ InitCtl
    /\ InitThr
    /\ InitIni
    /\ InitLoop
    /\ InitStop
    /\ InitAd
    /\ InitApp
    /\ InitRoiSet
    /\ InitCollAny
    /\ InitRace

SpecColl == InitAnyClass /\ [][NextColl]_vars

\* Two threads, each calling one decorated method of the same object, their
\* steps interleaved in every way.
InitAnyObject ==
    /\ InitReg
    /\ InitFeat
    /\ InitCam
    /\ InitPub
    /\ InitRoi
    /\ InitCtl
    /\ InitThr
    /\ InitIni
    /\ InitLoop
    /\ InitStop
    /\ InitAd
    /\ InitApp
    /\ InitRoiSet
    /\ InitCollFixed
    /\ InitRaceAny

SpecRace == InitAnyObject /\ [][NextRace]_vars

(***************************************************************************)
(* The claims.                                                             *)
(***************************************************************************)

\* C1: once A, B and C are all defined, B's registry holds A's properties and
\* B's own but none of C's, C's holds A's and its own but none of B's, and
\* A's registry holds neither B's nor C's.
C1_RegistryIsolation ==
    defined = Classes =>
        /\ DeclaredNames("A") \cup DeclaredNames("B") \subseteq RegistryNames("B")
        /\ RegistryNames("B") \cap DeclaredNames("C") = {}
        /\ DeclaredNames("A") \cup DeclaredNames("C") \subseteq RegistryNames("C")
        /\ RegistryNames("C") \cap DeclaredNames("B") = {}
        /\ RegistryNames("A") \cap (DeclaredNames("B") \cup DeclaredNames("C")) = {}

\* C2: in a sequence of reads of a cached-setting Feature with no write in
\* between, a read after the first one does not invoke the getter and returns
\* what the first read returned.
C2_CachedReadOnce ==
    \A p \in CachedFeatures :
        (last.op = "read" /\ last.prop = p /\ last.raised = "no" /\ nreads[p] = 2)
            => (~last.called /\ last.ret = first[p])

\* C3: after a write that returned, the instance's store maps the property's
\* name to the value written, or to what the getter returned when the write
\* was a forced refresh of a cached setting; after a read that invoked the
\* getter, the store maps the property's name to what the getter returned.
C3_StoreMirrorsProperty ==
    /\ (last.op = "write" /\ last.raised = "no")
           => config[last.inst][last.prop] = (IF last.called THEN last.ret ELSE last.arg)
    /\ (last.op = "read" /\ last.called)
           => config[last.inst][last.prop] = last.ret

\* C9: the start_free_run() calls since the last stop_free_run() have issued
\* exactly one software trigger between them, and a call that is not the
\* first of them issues none and leaves the acquisition mode, the running
\* flag and the device's grab state as it found them.
C9_FreeRunIdempotent ==
    /\ freerun.calls >= 1 => freerun.triggers = 1
    /\ (camlast.op = "start_free_run" /\ freerun.calls = 2)
           => /\ camlast.triggers = 0
              /\ cam.acq_mode = camlast.before.acq_mode
              /\ cam.free_run_running = camlast.before.free_run_running
              /\ cam.grabbing = camlast.before.grabbing

\* C9 witness: a second start_free_run() in a row, found with the device no
\* longer grabbing (a read or stop_camera() came in between).
C9_Witness ==
    /\ camlast.op = "start_free_run"
    /\ freerun.calls = 2
    /\ ~camlast.before.grabbing

\* C10: a read_camera() that finds the continuous mode and the device not
\* grabbing raises WrongCameraState, makes no RetrieveResult call and leaves
\* the cached most recent frame as it was.
C10_ContinuousReadNeedsGrab ==
    (camlast.op = "read_camera" /\ camlast.before.acq_mode = MODE_CONTINUOUS
        /\ ~camlast.before.grabbing)
        => /\ camlast.raised = "WrongCameraState"
           /\ camlast.retrieved = 0
           /\ camlast.ret = <<>>
           /\ cam.temp_image = camlast.before.temp_image

\* C10 witness: such a read refused while a frame from an earlier read is
\* cached.
C10_Witness ==
    /\ camlast.op = "read_camera"
    /\ camlast.before.acq_mode = MODE_CONTINUOUS
    /\ ~camlast.before.grabbing
    /\ camlast.raised = "WrongCameraState"
    /\ cam.temp_image # 0

C5_ExitEndsLoop ==
    \A p \in Publishers :
        \A k \in 1..Len(recvd[p]) :
            recvd[p][k] = TwoPart("", PyStr(PUBLISHER_EXIT_KEYWORD)) =>
                /\ k = Len(recvd[p])
                /\ pc[p] \in {"emit", "check", "loop", "done"}
                /\ pc[p] # "emit" =>
                       /\ emitted[p] = recvd[p]
                       /\ Cardinality({j \in 1..Len(emitted[p]) :
                              emitted[p][j] = TwoPart("", PyStr(PUBLISHER_EXIT_KEYWORD))}) = 1
                /\ pc[p] \in {"loop", "done"} => event[EventOf(p)]
                /\ pc[p] # "done" => ENABLED (Emit(p) \/ Check(p) \/ LoopTest(p))

\* A Publisher relayed a message, then the exit message, and has ended while a
\* later message is still waiting at the relay port.
C5_Witness ==
    \E p \in Publishers :
        /\ pc[p] = "done"
        /\ Len(emitted[p]) = 2
        /\ emitted[p][2] = TwoPart("", PyStr(PUBLISHER_EXIT_KEYWORD))
        /\ pipe # <<>>

\* C6: the test that ends an iteration of the serve loop sets the stop flag
\* exactly when the topic is "" and the payload is the exit keyword; for any
\* other message, which has been emitted like every message, it changes no
\* flag; and the loop test ends the loop exactly when the flag is set.
C6_FlagOnlyOnExit ==
    [][/\ \A p \in Publishers :
            /\ (pc[p] = "check" /\ pc'[p] # "check") =>
                   /\ emitted[p][Len(emitted[p])] = TwoPart(hand[p].topic, hand[p].data)
                   /\ IF hand[p].topic = "" /\ hand[p].data = PyStr(PUBLISHER_EXIT_KEYWORD)
                      THEN event'[EventOf(p)]
                      ELSE event' = event /\ pc'[p] = "loop"
            /\ (pc[p] = "loop" /\ pc'[p] # "loop") =>
                   pc'[p] = IF event[EventOf(p)] THEN "done" ELSE "recv"
       /\ event' # event =>
              \E p \in Publishers :
                  /\ pc[p] = "check" /\ pc'[p] # "check"
                  /\ hand[p].topic = "" /\ hand[p].data = PyStr(PUBLISHER_EXIT_KEYWORD)]_vars

\* A Publisher has relayed the exit keyword on topic "t" and another str on
\* the empty topic, and is waiting for the next message with its flag unset.
C6_Witness ==
    \E p \in Publishers :
        /\ pc[p] = "recv"
        /\ ~event[EventOf(p)]
        /\ emitted[p] = <<TwoPart("t", PyStr(PUBLISHER_EXIT_KEYWORD)),
                          TwoPart("", PyStr("data"))>>

\* C7: a Publisher tries to bind the publish port at most twice.  If the first
\* bind succeeds it pushes nothing; if it fails the Publisher pushes exactly one
\* message, the exit keyword on the empty topic, and retries once.  After a
\* successful retry it is on its way through the relay bind to the serve loop;
\* after a failed retry run() has ended with the error, and the Publisher
\* holds no port and has received and emitted nothing.
C7_BindRetryOnce ==
    \A p \in Publishers :
        /\ Len(binds[p]) <= 2
        /\ pc[p] \in {"idle", "bind"} <=> binds[p] = <<>>
        /\ (binds[p] # <<>> /\ binds[p][1] = "ok") =>
               /\ binds[p] = <<"ok">>
               /\ pushes[p] = <<>>
               /\ pc[p] # "failed"
        /\ (binds[p] # <<>> /\ binds[p][1] = "in use") =>
               /\ pushes[p] = IF pc[p] = "push" THEN <<>>
                              ELSE <<TwoPart("", PyStr(PUBLISHER_EXIT_KEYWORD))>>
               /\ pc[p] \in {"push", "retry"} <=> Len(binds[p]) = 1
        /\ binds[p] = <<"in use", "ok">> =>
               /\ pc[p] \in {"bindpull", "wait", "loop", "recv", "emit", "check", "done"}
               /\ pc[p] \in {"bindpull", "wait", "loop", "recv", "emit", "check"} => portPub = p
               /\ pc[p] \in {"wait", "loop", "recv", "emit", "check"} => portPull = p
        /\ binds[p] = <<"in use", "in use">> =>
               /\ pc[p] = "failed"
               /\ portPub # p /\ portPull # p
               /\ recvd[p] = <<>> /\ emitted[p] = <<>>
        /\ pc[p] = "failed" => binds[p] = <<"in use", "in use">>

\* One Publisher's retry succeeded and it is serving; another's retry failed.
C7_Witness ==
    \E p, q \in Publishers :
        /\ binds[p] = <<"in use", "ok">> /\ pc[p] = "recv" /\ emitted[p] # <<>>
        /\ binds[q] = <<"in use", "in use">> /\ pc[q] = "failed"

C11_LastReadNeedsGrab ==
    (camlast.op = "read_camera" /\ camlast.before.acq_mode = MODE_LAST
        /\ ~camlast.before.grabbing)
        => camlast.raised = "WrongCameraState"

\* C12: after a write of ROI = ((x0, x1), (y0, y1)) that returned, Width and
\* OffsetX are multiples of 4, Height and OffsetY multiples of 2; the region
\* the getter reports, ((OffsetX, OffsetX + Width - 1), (OffsetY, OffsetY +
\* Height - 1)), starts at x0 and y0 rounded down, ends no later than x1 and
\* y1, and equals the bounds X and Y the setter cached; and a read returns
\* that region.
C12_ROIRounding ==
    /\ (roilast.op = "write" /\ roilast.raised = "no") =>
           LET X == roilast.arg[1]
               Y == roilast.arg[2]
               got == ROI_get(roi)
           IN  /\ roi.dev.Width % 4 = 0 /\ roi.dev.OffsetX % 4 = 0
               /\ roi.dev.Height % 2 = 0 /\ roi.dev.OffsetY % 2 = 0
               /\ got[1][1] = X[1] - (X[1] % 4) /\ got[1][2] <= X[2]
               /\ got[2][1] = Y[1] - (Y[1] % 2) /\ got[2][2] <= Y[2]
               /\ got = <<roi.X, roi.Y>>
    /\ (roilast.op = "read" /\ roilast.raised = "no") =>
           roilast.ret = <<<<roi.dev.OffsetX, roi.dev.OffsetX + roi.dev.Width - 1>>,
                           <<roi.dev.OffsetY, roi.dev.OffsetY + roi.dev.Height - 1>>>>

\* C13: after a write of exposure, gain, auto_exposure or auto_gain that
\* returned without the device timing out, the store's entry of that Feature
\* equals what the device holds: the exposure register in microseconds, the
\* gain register, the mode string ("Off" or "Once" for a boolean) applied.
C13_StoreHoldsDeviceValue ==
    (ctllast.op = "write" /\ ctllast.raised = "no" /\ ~ctllast.timedout) =>
        CASE ctllast.prop = "exposure"      -> ctl.cfg["exposure"] = ctl.dev_exposure
          [] ctllast.prop = "gain"          -> ctl.cfg["gain"] = ctl.dev_gain
          [] ctllast.prop = "auto_exposure" -> ctl.cfg["auto_exposure"] = ctl.ExposureAuto
          [] ctllast.prop = "auto_gain"     -> ctl.cfg["auto_gain"] = ctl.GainAuto

\* C14: when the device times out during a write of exposure or gain, the
\* write raises nothing and the store's entry of that property holds the
\* value it held before the write.
C14_TimeoutKeepsStore ==
    (ctllast.op = "write" /\ ctllast.prop \in {"exposure", "gain"} /\ ctllast.timedout) =>
        /\ ctllast.raised = "no"
        /\ ctl.cfg[ctllast.prop] = ctllast.before

\* A write of an exposure other than the stored one timed out after the
\* device had taken the new value.
C14_Witness ==
    /\ ctllast.op = "write" /\ ctllast.prop = "exposure" /\ ctllast.timedout
    /\ ctllast.raised = "no"
    /\ ctl.dev_exposure # ctllast.before
    /\ ctl.dev_exposure = m_as_us(ctllast.arg).m

\* C15: a read of exposure in which the device does not time out returns the
\* value of the device's exposure register, in microseconds, also when the
\* store already holds an exposure.
C15_ReadQueriesDevice ==
    (ctllast.op = "read" /\ ctllast.prop = "exposure" /\ ~ctllast.timedout) =>
        /\ ctllast.raised = "no"
        /\ ctllast.ret = ctl.dev_exposure

\* C16: a read of a Feature or ModelProp that has no getter, and a write of
\* one that has no setter, raises AttributeError, invokes no getter (and there
\* is no setter to invoke) and leaves the instance's configuration store and
\* the descriptor's cached value as they were.
C16_UnsupportedAccess ==
    [][((last'.op = "read" /\ ~Descriptor(last'.prop).has_fget)
            \/ (last'.op = "write" /\ ~Descriptor(last'.prop).has_fset))
        => /\ last'.raised = "AttributeError"
           /\ ~last'.called
           /\ config' = config
           /\ fvalue' = fvalue]_vars

\* The setter-only Feature was read after a write had given it a cached
\* value and the store an entry.
C16_Witness ==
    /\ last.op = "read" /\ last.prop = "fwonly"
    /\ last.raised = "AttributeError"
    /\ fvalue["fwonly"] # NoneVal
    /\ config["i1"][""] # NoneVal

\* The calls on obj that returned, in call order.
ReturnedCalls(obj) ==
    SelectSeq(thrcalls, LAMBDA c : c.obj = obj /\ c.raised = "no")

\* C17: with all calls made from one thread, an object whose _threads was
\* absent or a list holds after n calls that returned n entries [name, thread]
\* in call order, each thread started with the arguments of its call (and
\* still running when the call returns); a call on an object whose _threads
\* is not a list raises ValueError, creates no thread and leaves _threads as
\* it was.
C17_AsyncThreadRegistry ==
    /\ \A obj \in Objects :
         LET cs == ReturnedCalls(obj)
             ts == inst_threads[obj]
         IN  /\ ts.kind = "absent" => cs = <<>>
             /\ ts.kind = "other" => cs = <<>>
             /\ ts.kind = "list" =>
                  /\ Len(ts.items) = Len(cs)
                  /\ \A k \in 1..Len(cs) :
                       /\ ts.items[k][1] = cs[k].func
                       /\ ts.items[k][2] \in 1..Len(spawned)
                       /\ spawned[ts.items[k][2]].target = cs[k].func
                       /\ spawned[ts.items[k][2]].args = <<obj>> \o cs[k].args
                       /\ spawned[ts.items[k][2]].state \in {"running", "finished"}
                  /\ \A j, k \in 1..Len(cs) : j < k => ts.items[j][2] < ts.items[k][2]
    /\ thrcalls # <<>> =>
         LET c == thrcalls[Len(thrcalls)]
         IN  /\ c.raised = (IF thrlast.before.kind = "other" THEN "ValueError" ELSE "no")
             /\ c.raised = "no" =>
                  /\ Len(spawned) = thrlast.nbefore + 1
                  /\ Len(inst_threads[c.obj].items) = Len(thrlast.before.items) + 1
                  /\ thrlast.atreturn = "running"
             /\ c.raised = "ValueError" =>
                  /\ Len(spawned) = thrlast.nbefore
                  /\ inst_threads[c.obj] = thrlast.before

\* Two calls of different methods on one object returned, its first thread
\* still running, and then a call on the other object, whose _threads is not
\* a list, raised.
C17_Witness ==
    /\ Len(ReturnedCalls("a")) = 2
    /\ inst_threads["a"].items[1][1] # inst_threads["a"].items[2][1]
    /\ spawned[1].state = "running"
    /\ thrcalls[Len(thrcalls)].obj = "b"
    /\ thrcalls[Len(thrcalls)].raised = "ValueError"

\* The devices of the last enumeration whose friendly name contains the
\* identifier, in enumeration order.
Matches == SelectSeq(inilast.devices, LAMBDA d : StrIn(camera, GetFriendlyName(d)))

\* C18: an initialize() in which no device enumerates, or none whose friendly
\* name contains the identifier, raises CameraNotFound and makes no fetch_all,
\* update or apply_all, also after an earlier initialize() that succeeded.
C18_NoMatchIsFatal ==
    (inilast.op = "initialize" /\ Matches = <<>>) =>
        /\ inilast.raised = "CameraNotFound"
        /\ inilast.config_ops = <<>>

\* C19: when several enumerated devices match, initialize() attaches and opens
\* the first match only, and driver and friendly_name are those of the first
\* match.
C19_FirstMatchOnly ==
    (inilast.op = "initialize" /\ Len(Matches) >= 2) =>
        /\ inilast.opened = <<Matches[1]>>
        /\ ini.driver = Matches[1]
        /\ ini.friendly_name = GetFriendlyName(Matches[1])

\* C20: after a write acquisition_mode = m, for each of the three modes and
\* whether or not the device is grabbing, a read of acquisition_mode returns m
\* and the store's entry acquisition_mode holds the mode the next
\* trigger_camera() will use.
C20_ModeWriteTakesEffect ==
    camlast.op = "set_acquisition_mode" =>
        /\ acquisition_mode_get(cam) = cam.fvalue["acquisition_mode"]
        /\ cam.cfg["acquisition_mode"] # NoneVal
        /\ cam.cfg["acquisition_mode"] = acquisition_mode_get(cam)

\* C21: a write of auto_exposure or auto_gain returns exactly for "Off",
\* "Once", "Continuous", False and True, and then the device register holds
\* the string itself, "Off" for False and "Once" for True; every other value
\* raises ValueError and leaves the device registers, the descriptor's cached
\* value and the configuration store as they were.
C21_AutoModeValues ==
    (ctllast.op = "write" /\ ctllast.prop \in AutoFeatures) =>
        LET v == ctllast.arg
            p == ctllast.prop
        IN  IF v.type = "bool"
            THEN /\ ctllast.raised = "no"
                 /\ AutoRegister(ctl, p) = (IF v.b THEN "Once" ELSE "Off")
            ELSE IF v.type = "str" /\ v.v \in {"Off", "Once", "Continuous"}
            THEN /\ ctllast.raised = "no"
                 /\ AutoRegister(ctl, p) = v.v
            ELSE /\ ctllast.raised = "ValueError"
                 /\ AutoRegister(ctl, p) = ctllast.prior.register
                 /\ ctl.fvalue[p] = ctllast.prior.value
                 /\ ctl.cfg[p] = ctllast.prior.entry
                 /\ ctl.cfg[DescriptorName(p)] = ctllast.prior.written

\* A value that is no mode was written to an auto feature whose register had
\* been moved by an earlier write.
C21_Witness ==
    /\ ctllast.op = "write"
    /\ ctllast.prop \in AutoFeatures
    /\ ctllast.raised = "ValueError"
    /\ AutoRegister(ctl, ctllast.prop) = "Continuous"

\* The data of the successful retrievals, in retrieval order, when the ready
\* buffers are retrieved with the outcomes oks.
RECURSIVE Successful(_, _)
Successful(buffers, oks) ==
    IF oks = <<>> \/ buffers = <<>> THEN <<>>
    ELSE (IF Head(oks) THEN <<Head(buffers)>> ELSE <<>>)
             \o Successful(Tail(buffers), Tail(oks))

\* C22: a read_camera() that returns, in the continuous mode with the device
\* grabbing and n ready buffers, makes n retrievals and returns the frames of
\* the successful ones in retrieval order, no two elements being the same
\* frame, and the last returned frame is the cached most recent frame.
C22_ContinuousReadFrames ==
    (camlast.op = "read_camera" /\ camlast.before.acq_mode = MODE_CONTINUOUS
        /\ camlast.before.grabbing /\ camlast.raised = "no")
        => /\ camlast.retrieved = Len(camlast.before.buffers)
           /\ camlast.ret = Successful(camlast.before.buffers, camlast.oks)
           /\ \A j, k \in 1..Len(camlast.ret) : j # k => camlast.ret[j] # camlast.ret[k]
           /\ camlast.ret # <<>> => cam.temp_image = camlast.ret[Len(camlast.ret)]

\* C28: trigger_camera() in one of the three acquisition modes returns having
\* issued exactly one software trigger, with the device grabbing with the
\* strategy of the mode (continuous: one by one, single shot: latest image
\* only, last: latest images) and none of the buffers of an earlier grab
\* left; in any other mode it raises CameraException and issues no trigger.
C28_TriggerCamera ==
    camlast.op = "trigger_camera" =>
        IF camlast.before.acq_mode \in {MODE_CONTINUOUS, MODE_SINGLE_SHOT, MODE_LAST}
        THEN /\ camlast.raised = "no"
             /\ camlast.triggers = 1
             /\ cam.grabbing
             /\ \A i \in 1..Len(cam.buffers) : \A j \in 1..Len(camlast.before.buffers) :
                    cam.buffers[i] # camlast.before.buffers[j]
             /\ camlast.before.acq_mode = MODE_CONTINUOUS => cam.strategy = "OneByOne"
             /\ camlast.before.acq_mode = MODE_SINGLE_SHOT => cam.strategy = "LatestImageOnly"
             /\ camlast.before.acq_mode = MODE_LAST => cam.strategy = "LatestImages"
        ELSE /\ camlast.raised = "CameraException"
             /\ camlast.triggers = 0

\* C28 witness: trigger_camera() in the mode MODE_LAST found the device
\* grabbing with a frame ready.
C28_Witness ==
    /\ camlast.op = "trigger_camera"
    /\ camlast.before.acq_mode = MODE_LAST
    /\ camlast.before.grabbing
    /\ camlast.before.buffers # <<>>
    /\ camlast.raised = "no"

\* C29: read_camera() in the single-shot mode or the mode MODE_LAST returns
\* after exactly one retrieval, with a list of the one frame retrieved if the
\* grab succeeded and an empty list otherwise; after it the device is not
\* grabbing in the single-shot mode and grabs as before in the mode
\* MODE_LAST; without a frame the cached most recent frame is as it was.
C29_SingleRead ==
    (camlast.op = "read_camera"
        /\ camlast.before.acq_mode \in {MODE_SINGLE_SHOT, MODE_LAST}) =>
        LET got == camlast.before.buffers # <<>> /\ camlast.oks[1]
        IN  /\ camlast.raised = "no"
            /\ camlast.retrieved = 1
            /\ camlast.ret = IF got THEN <<camlast.before.buffers[1]>> ELSE <<>>
            /\ camlast.before.acq_mode = MODE_SINGLE_SHOT => ~cam.grabbing
            /\ camlast.before.acq_mode = MODE_LAST
                   => cam.grabbing = camlast.before.grabbing
            /\ ~got => cam.temp_image = camlast.before.temp_image

\* C29 witness: a single-shot read whose grab did not succeed, on a grabbing
\* device with a frame ready and a frame cached by an earlier read.
C29_Witness ==
    /\ camlast.op = "read_camera"
    /\ camlast.before.acq_mode = MODE_SINGLE_SHOT
    /\ camlast.before.grabbing
    /\ camlast.before.buffers # <<>>
    /\ ~camlast.oks[1]
    /\ camlast.ret = <<>>
    /\ cam.temp_image # 0

\* C30: in continuous_reads, what an iteration has emitted is at every moment
\* the first frames of the list its read_camera() returned, in the list's
\* order, and when the iteration sleeps it is the whole list (nothing for an
\* empty list); the sleep lasts the current exposure; and once keep_reading
\* has been set to False while the loop runs, the loop begins at most one
\* more read_camera() and then ends.
C30_ContinuousReadsLoop ==
    /\ [](/\ Len(loop.emitted) <= Len(loop.imgs)
          /\ loop.emitted = SubSeq(loop.imgs, 1, Len(loop.emitted))
          /\ loop.pc = "emit" => Len(loop.emitted) < Len(loop.imgs)
          /\ loop.pc \in {"sleep", "test"} => loop.emitted = loop.imgs
          /\ (loop.pc \in {"emit", "sleep"} /\ camlast.op = "read_camera")
                 => loop.imgs = camlast.ret
          /\ loop.slept # 0 => loop.slept = exposure_get(cam, FALSE)
          /\ loop.cleared => loop.reads <= 1)
    /\ (loop.cleared ~> loop.pc \in Ended)

\* C30 witness: the flag was cleared while the loop ran, the loop made one
\* more read, emitted the two frames it returned, and ended.
C30_Witness ==
    /\ loop.cleared
    /\ loop.reads = 1
    /\ Len(loop.emitted) = 2
    /\ loop.slept # 0
    /\ loop.pc = "returned"

\* C23: finalize() completes stop_free_run, stop_camera, the clean-up of the
\* threads and the base class's finalize in that order, and a finalize()
\* called while a thread of continuous_reads runs eventually returns, with
\* that thread ended, whatever the acquisition mode.
C23_FinalizeReturns ==
    /\ [](fin.calls = SubSeq(FinalizeCalls, 1, Len(fin.calls)))
    /\ ((fin.pc # 0 /\ loop.pc \in Running)
            ~> (fin.pc = 4 /\ loop.pc \in Ended))

\* The messages of seq that are the exit keyword on the empty topic, as the
\* fan-out socket sends them.
Sentinels(seq) ==
    {i \in 1..Len(seq) : seq[i] = TwoPart("", PyStr(PUBLISHER_EXIT_KEYWORD))}

\* C24: stop() constructs a Listener, publishes through it the exit keyword
\* on the empty topic, closes it and then sets the stop flag, in that order;
\* once stop() has returned, the serve loop of a started Publisher ends; and
\* the Publisher sends the exit keyword on its fan-out socket at most once.
C24_PublisherStop ==
    /\ [](/\ stopcall.calls = SubSeq(StopCalls, 1, Len(stopcall.calls))
          /\ stopcall.pc >= 2
                 => stopcall.sent = <<TwoPart("", PyStr(PUBLISHER_EXIT_KEYWORD))>>
          /\ stopcall.pc = 4 => event[EventOf(Stopped)]
          /\ (stopcall.pc < 4 /\ event[EventOf(Stopped)])
                 => Sentinels(emitted[Stopped]) # {}
          /\ Cardinality(Sentinels(emitted[Stopped])) <= 1)
    /\ ((stopcall.pc = 4 /\ pc[Stopped] # "idle") ~> pc[Stopped] = "done")

\* C24 witness: stop() has returned, and the Publisher has sent on the keyword
\* that stop() published and has ended.
C24_Witness ==
    /\ stopcall.pc = 4
    /\ npublished = 0
    /\ Cardinality(Sentinels(emitted[Stopped])) = 1
    /\ pc[Stopped] = "done"

\* C25: AnalogDiscovery.initialize(dev_num) raises DriverException, carrying
\* the text FDwfGetLastErrorMsg wrote, exactly when the handle FDwfDeviceOpen
\* returned is zero; with a nonzero handle it raises nothing, keeps the
\* handle in hdwf, and calls FDwfDeviceOpen once and nothing else.
C25_InitializeRaisesOnZeroHandle ==
    adlast.op = "initialize" =>
        /\ (adlast.raised = "DriverException") <=> (adlast.handle = 0)
        /\ adlast.raised \in {"no", "DriverException"}
        /\ adlast.handle = 0 =>
              /\ adlast.msg = str_bytes(adlast.szerr)
              /\ adlast.native = <<"FDwfDeviceOpen", "FDwfGetLastErrorMsg">>
        /\ adlast.handle # 0 =>
              /\ adlast.raised = "no"
              /\ adlast.msg = ""
              /\ ad.hdwf = adlast.handle
              /\ adlast.native = <<"FDwfDeviceOpen">>

\* An initialize() that found no device, after one that opened a device.
C25_Witness ==
    /\ adlast.op = "initialize"
    /\ ad.calls = 2
    /\ adlast.handle = 0
    /\ adlast.raised = "DriverException"
    /\ adlast.msg = "b'Device not found'"

\* C26: analog_in_record_length_set calls the native record-length Get and
\* analog_in_record_length_get the native record-length Set,
\* analog_in_trigger_condition_get calls the native trigger-condition Set,
\* analog_in_trigger_length_condition_get and
\* analog_in_trigger_length_condition_hysteresis_get both call the native
\* trigger-hysteresis Get; every other get or set method calls the native
\* Get or Set of its own parameter, and a get that follows a set of the
\* same parameter (and channel) returns the value that was set.
C26_DriverBindings ==
    adlast.op \in DriverMethods =>
        LET b == Binding(adlast.op)
            was == ad.set[b.param][adlast.channel]
        IN /\ adlast.op = "analog_in_record_length_set" =>
                 adlast.native = <<"FDwfAnalogInRecordLengthGet">>
           /\ adlast.op = "analog_in_record_length_get" =>
                 adlast.native = <<"FDwfAnalogInRecordLengthSet">>
           /\ adlast.op = "analog_in_trigger_condition_get" =>
                 adlast.native = <<"FDwfAnalogInTriggerConditionSet">>
           /\ adlast.op \in {"analog_in_trigger_length_condition_get",
                             "analog_in_trigger_length_condition_hysteresis_get"} =>
                 adlast.native = <<"FDwfAnalogInTriggerHysteresisGet">>
           /\ adlast.op \notin Miswired =>
                 /\ adlast.native = <<FDwfAnalogIn(OwnCall(b))>>
                 /\ ~adlast.crashed
                 /\ (b.dir = "Get" /\ was # NoneVal) =>
                       adlast.result = FromNative(b.type, was)

\* The range of channel 1 read back after it was set to a value other than
\* the one the register started with.
C26_Witness ==
    /\ adlast.op = "analog_in_channel_range_get"
    /\ adlast.channel = 1
    /\ ad.set["ChannelRange"][1] = 1
    /\ ad.set["ChannelRange"][0] = NoneVal
    /\ adlast.result = PyFloat(1)

\* C27: register_measurements(M1, M2) constructs an instance of M1 and then
\* an instance of M2 and puts them, in that order, at the end of the
\* measurement list (at index 0 and 1 of a new Experiment), leaving the model
\* list alone; register_models appends the classes themselves to the model
\* list, constructs nothing and leaves the measurement list alone.
C27_RegistrationOrder ==
    LET before == applast.before
        classes == applast.classes
        k == Len(before.measurements)
    IN /\ applast.op = "register_measurements" =>
            /\ Len(app.measurements) = k + Len(classes)
            /\ SubSeq(app.measurements, 1, k) = before.measurements
            /\ \A i \in 1..Len(classes) :
                  /\ app.measurements[k + i].cls = classes[i]
                  /\ app.measurements[k + i].n = before.made + i
            /\ app.made = before.made + Len(classes)
            /\ app.models = before.models
       /\ applast.op = "register_models" =>
            /\ app.models = before.models \o classes
            /\ app.made = before.made
            /\ app.measurements = before.measurements

\* Track and Scan registered in one call with an Experiment that has models
\* but no measurement yet.
C27_Witness ==
    /\ applast.op = "register_measurements"
    /\ applast.classes = <<"Track", "Scan">>
    /\ applast.before.measurements = <<>>
    /\ app.models # <<>>
    /\ app.measurements = <<Instance("Track", 1), Instance("Scan", 2)>>

C32_CollectedProperties ==
    mdllast.op = "_collect_properties" =>
        /\ mdllast.raised = "no"
        /\ {mdl.properties[i][1] : i \in 1..Len(mdl.properties)}
               = ModelPropNames(mdl.attrs)
        /\ Len(mdl.properties) = Cardinality(ModelPropNames(mdl.attrs))

\* C33: whenever free_run_running is set the device is grabbing, whatever
\* the calls of start_free_run, stop_free_run, stop_camera, trigger_camera,
\* read_camera and the writes of acquisition_mode made so far.
C33_FreeRunImpliesGrabbing ==
    cam.free_run_running => cam.grabbing

\* C34: no step of a Publisher, of stop() or of a Listener clears a stop flag
\* that is set; and a Publisher that is at the test of its serve loop with
\* its flag set takes nothing from the relay port, sends nothing on, and ends
\* with its next step.
C34_StopFlagLatched ==
    /\ [][/\ \A e \in Events : event[e] => event'[e]
          /\ \A p \in Publishers :
                (pc[p] = "loop" /\ event[EventOf(p)]) =>
                    /\ pc'[p] \in {"loop", "done"}
                    /\ emitted'[p] = emitted[p]
                    /\ recvd'[p] = recvd[p]]_vars
    /\ [](pc[Stopped] = "done" /\ recvd[Stopped] = <<>> => emitted[Stopped] = <<>>)
    /\ ((pc[Stopped] = "loop" /\ event[EventOf(Stopped)]) ~> pc[Stopped] = "done")

\* stop() has returned before the Publisher came to its serve loop, and the
\* Publisher has ended without a message received or sent on.
C34_Witness ==
    /\ stopcall.pc = 4
    /\ pc[Stopped] = "done"
    /\ event[EventOf(Stopped)]
    /\ recvd[Stopped] = <<>>
    /\ emitted[Stopped] = <<>>
    /\ binds[Stopped] = <<"ok">>

\* C35: when stop() sets the flag while the serve loop waits in its receive,
\* the loop does not end before one more message has arrived, that message
\* is sent on, and nothing is sent on after it: at most one message is sent
\* on after the flag was set, and exactly one by the time the loop has ended.
C35_OneMoreAfterFlag ==
    /\ [][(pc[Stopped] = "recv" /\ event[EventOf(Stopped)]) =>
             \/ pc'[Stopped] = "recv" /\ emitted'[Stopped] = emitted[Stopped]
             \/ /\ pc'[Stopped] = "emit"
                /\ pipe # <<>>
                /\ recvd'[Stopped] = Append(recvd[Stopped], Head(pipe))]_vars
    /\ [](stopcall.pc = 4 => Len(emitted[Stopped]) <= stopcall.setat.n + 1)
    /\ []((stopcall.pc = 4 /\ stopcall.setat.pc = "recv" /\ ~stopcall.setat.was) =>
             /\ pc[Stopped] \in {"recv", "emit", "check", "loop", "done"}
             /\ pc[Stopped] \in {"check", "loop", "done"} =>
                   /\ Len(emitted[Stopped]) = stopcall.setat.n + 1
                   /\ emitted[Stopped][Len(emitted[Stopped])]
                          = recvd[Stopped][Len(recvd[Stopped])])
    /\ ((stopcall.pc = 4 /\ stopcall.setat.pc = "recv") ~> pc[Stopped] = "done")

\* stop() set the flag while the loop waited in its receive after sending on
\* a message; the loop has sent on one more message and has ended.
C35_Witness ==
    /\ stopcall.pc = 4
    /\ stopcall.setat = [pc |-> "recv", was |-> FALSE, n |-> 1]
    /\ pc[Stopped] = "done"
    /\ Len(emitted[Stopped]) = 2

\* C36: the cached value of a cached-setting Feature is kept by the
\* descriptor, one for the class: a write of v (other than the value that
\* forces an update) through one instance is followed, through any other
\* instance, by reads that return v without a call of the getter and without
\* a change of that instance's configuration store.
C36_CachePerClass ==
    [][/\ (last'.op = "write" /\ last'.raised = "no"
              /\ last'.arg # Descriptor(last'.prop).force_update)
           => fvalue'[last'.prop] = last'.arg
       /\ (last'.op = "read" /\ fvalue[last'.prop] # Descriptor(last'.prop).force_update)
           => /\ last'.ret = fvalue[last'.prop]
              /\ ~last'.called
              /\ config' = config
              /\ fvalue' = fvalue
       /\ (/\ last.op = "write" /\ last.raised = "no"
           /\ last.arg # Descriptor(last.prop).force_update
           /\ last'.op = "read" /\ last'.prop = last.prop /\ last'.inst # last.inst)
           => /\ last'.ret = last.arg
              /\ ~last'.called
              /\ config'[last'.inst] = config[last'.inst]]_vars

\* A value written through i1 and read through i2, whose store was never
\* written.
C36_Witness ==
    /\ last.op = "read" /\ last.inst = "i2" /\ last.prop = "cached"
    /\ last.ret = 1 /\ ~last.called
    /\ fvalue["cached"] = 1
    /\ config["i1"][""] = 1
    /\ \A k \in ConfigKeys : config["i2"][k] = NoneVal

C38_ClearLeadsToEnd == (loop.cleared \/ loop.early) ~> loop.pc \in Ended

====
